---- MODULE Spec2Model ----
(***************************************************************************)
(* Model of the SPA navigation module (js/spa.js): the page cache, the     *)
(* preloader, content extraction, the stylesheet loader, navigateTo and    *)
(* its interaction with the browser history.                               *)
(*                                                                         *)
(* Every invocation of an async function (navigateTo, preloadPage) is a    *)
(* task: a record whose pc names the await it is suspended at.  One action *)
(* is one event-loop task together with the microtasks it triggers, i.e.   *)
(* the code that runs between two suspension points.                       *)
(***************************************************************************)
EXTENDS Integers, Sequences, FiniteSets, TLC

(***************************************************************************)
(* Bounds                                                                  *)
(***************************************************************************)
\* Number of navigateTo / preloadPage invocations that reach their first
\* statement after the guard (each is one task).
MaxTasks == 3

(***************************************************************************)
(* The site: URLs, markup served for them, the entry document              *)
(***************************************************************************)
IndexUrl == "index.html"
TrendingUrl == "trending.html"
\* A page no nav link points to (linked from page content), and a page in a
\* sub-directory with the file name of a nav link.
AlbumUrl == "album.html"
SubTrendingUrl == "sub/trending.html"
\* A second name under which the server gives the home document.
HomeAlias == "home.html"
\* A page for which the server answers with markup of any shape.
DegradedUrl == "broken.html"
\* The pages with well-formed markup, and all the pages.
SiteUrls == {IndexUrl, TrendingUrl, AlbumUrl, SubTrendingUrl, HomeAlias}
Urls == SiteUrls \cup {DegradedUrl}
\* href of the links of the page shell, present on every page.
ShellHrefs == {IndexUrl, TrendingUrl}

\* Locations of the document besides the page URLs: the site root, and the
\* location after a click on a fragment link of the page.
RootPath == "/"
\* The locations without fragment.
Paths == Urls \cup {RootPath}
Fragment == "#top"
WithFragment(loc) ==
    CASE loc = IndexUrl -> "index.html#top"
      [] loc = TrendingUrl -> "trending.html#top"
      [] loc = AlbumUrl -> "album.html#top"
      [] loc = SubTrendingUrl -> "sub/trending.html#top"
      [] loc = RootPath -> "/#top"
      [] loc = HomeAlias -> "home.html#top"
      [] OTHER -> loc
HasFragment(loc) == loc \in {WithFragment(l) : l \in Paths}

\* location.pathname of a location.
Pathname(loc) ==
    IF HasFragment(loc)
    THEN CHOOSE l \in Paths : WithFragment(l) = loc
    ELSE loc

\* url.split('/') for the URLs of the model.
Segments(url) ==
    CASE url = IndexUrl -> <<"index.html">>
      [] url = RootPath -> <<"", "">>
      [] url = TrendingUrl -> <<"trending.html">>
      [] url = AlbumUrl -> <<"album.html">>
      [] url = SubTrendingUrl -> <<"sub", "trending.html">>
      [] OTHER -> <<url>>

StyleCss == "css/style.css"
TrendingCss == "css/trending.css"
FontsCss == "https://fonts.example/inter.css"

\* String predicates of the code, tabulated for the strings of the model.
\* href of links handleLinkClick leaves to the browser.
ExternalPage == "https://ext.example/page.html"
MailHref == "mailto:team@music.html"
PdfHref == "lyrics.pdf"
QueryHref == "index.html?tab=new"

StartsWithHttp(s) == s \in {FontsCss, ExternalPage}
EndsWithCss(s) == s \in {StyleCss, TrendingCss, FontsCss}
EndsWithHtml(s) ==
    s \in {IndexUrl, TrendingUrl, AlbumUrl, SubTrendingUrl, HomeAlias,
           DegradedUrl, ExternalPage, MailHref}
StartsWithHash(s) == s = Fragment
StartsWithMailto(s) == s = MailHref

ImgA == "https://images.unsplash.com/a?w=1&amp;h=1"
\* img.src of the element whose src attribute is written ImgA in the markup:
\* the parser has decoded the character reference.
ImgAResolved == "https://images.unsplash.com/a?w=1&h=1"
\* img.src for a src attribute as written in the markup text.
ResolvedSrc(attr) == IF attr = ImgA THEN ImgAResolved ELSE attr
ImgShell == "https://images.unsplash.com/shell"
\* /src="(https:\/\/images\.unsplash\.com[^"]+)"/ and [src*="unsplash"]
MatchesImgRegex(s) == s \in {ImgA, ImgShell}
ContainsUnsplash(s) == s \in {ImgA, ImgShell}

\* Inner markup of an element: its text and the src of the images in it.
EmptyMarkup == [text |-> "", imgs |-> <<>>]

Link(rel, href) == [rel |-> rel, href |-> href]

\* A document as the parser sees it.  main and title hold zero or one element.
DocIndex ==
    [main |-> <<[text |-> "index-main", imgs |-> <<>>]>>,
     title |-> <<"Home">>,
     bodyClass |-> "home",
     links |-> <<Link("stylesheet", StyleCss), Link("stylesheet", FontsCss)>>]

DocTrending ==
    [main |-> <<[text |-> "trending-main", imgs |-> <<ImgA>>]>>,
     title |-> <<"Trending">>,
     bodyClass |-> "trending",
     links |-> <<Link("stylesheet", StyleCss), Link("stylesheet", TrendingCss),
                 Link("icon", "favicon.ico")>>]

\* A second body the server may answer with for trending.html (an updated or
\* an error page): no <title>, no <main>.
DocTrendingAlt ==
    [main |-> <<>>,
     title |-> <<>>,
     bodyClass |-> "",
     links |-> <<Link("stylesheet", StyleCss)>>]

DocAlbum ==
    [main |-> <<[text |-> "album-main", imgs |-> <<>>]>>,
     title |-> <<"Album">>,
     bodyClass |-> "album",
     links |-> <<Link("stylesheet", StyleCss)>>]

\* Markup with and without <main>, <title> (also an empty one), a body
\* class, and <link> elements (also without href, or external).
Markups ==
    [main : {<<>>, <<[text |-> "m", imgs |-> <<>>]>>},
     title : {<<>>, <<"">>, <<"T">>},
     bodyClass : {"", "page"},
     links : {<<>>,
              <<Link("stylesheet", TrendingCss)>>,
              <<Link("stylesheet", ""), Link("stylesheet", FontsCss)>>}]

\* The bodies a request for url can be answered with.
ServerBodies(url) ==
    CASE url \in {IndexUrl, HomeAlias} -> {DocIndex}
      [] url = DegradedUrl -> Markups
      [] url = AlbumUrl -> {DocAlbum}
      [] url = SubTrendingUrl -> {DocTrending}
      [] OTHER -> {DocTrending, DocTrendingAlt}

\* The entry document (index.html as loaded by the browser).
EntryUrl == IndexUrl
EntryMain == [text |-> "index-main", imgs |-> <<>>]
\* The value of mainHTML for a document without <main> element
\* (document.querySelector('main') is null).
NoMain == [text |-> "no main element", imgs |-> <<>>]
EntryTitle == "Home"
EntryBodyClass == "home"
EntryLinks == <<Link("stylesheet", StyleCss), Link("stylesheet", FontsCss)>>
\* href of the .nav-link anchors of the page shell, in document order.
NavLinks == <<IndexUrl, TrendingUrl>>
\* src of the images outside <main>.
ShellImgs == <<ImgShell>>

DefaultTitle == "Music App"
FadeTransition == "opacity 0.15s ease"
\* The values of main.style.opacity: dimmed, faded out, shown.
DimOpacity == "0.5"
FadedOpacity == "0"
FullOpacity == "1"

(***************************************************************************)
(* State                                                                   *)
(***************************************************************************)
VARIABLES
    inited,        \* initSPA has run (listeners registered)
    preloadTimer,  \* the 2000 ms timer of initSPA is pending
    pageCache,     \* Map url -> markup (no value: <<>>)
    imageCache,    \* Set of image src
    loadedStyles,  \* Set of stylesheet href
    headLinks,     \* <link> elements appended to head by loadPageStyles
    imgRequests,   \* src of every new Image() created, in order
    requests,      \* fetch(url) calls issued, per url
    tasks,         \* invocations of navigateTo / preloadPage, in call order:
                   \* [kind, via, url, pc, html (<<>> until resolved), waits
                   \* (links whose load it awaits), hit (served from cache)]
    opacity,       \* main.style.opacity
    pointerEvents, \* main.style.pointerEvents
    transition,    \* main.style.transition
    scrollTop,     \* main.scrollTop
    mainHTML,      \* main.innerHTML
    docTitle,      \* document.title
    bodyClass,     \* document.body.className
    navActive,     \* hrefs of the .nav-link elements carrying 'active'
    hist,          \* session history entries
    hidx,          \* index of the current entry
    pushes,        \* history.pushState calls
    location,      \* window.location (file name)
    hardNavs,      \* urls assigned to window.location.href, in order (the
                   \* document stays until the browser commits the load)
    pageloads,     \* 'spa:pageload' events dispatched
    followed,      \* href of the links whose click the browser handled itself
    playerState,   \* the playerState object of js/player.js
    playerCalls,   \* the last two player operations called (observation)
    navState,      \* the navState object of the navigation module
    sidebarClasses, \* which of the sidebar classes the body element has
    prevented,     \* href of the clicks handleLinkClick called preventDefault
                   \* on (observation)
    bundle         \* the same page under the SPA navigation module of the
                   \* bundle (section 7), run beside js/spa.js: a record of
                   \* its pageCache, its navigateTo calls and what it wrote

vars == <<inited, preloadTimer, pageCache, imageCache, loadedStyles, headLinks,
          imgRequests, requests, tasks, opacity, pointerEvents, transition,
          scrollTop, mainHTML, docTitle, bodyClass, navActive, hist, hidx,
          pushes, location, hardNavs, pageloads, followed, playerState,
          playerCalls, navState, sidebarClasses,
          prevented, bundle>>

cacheVars == <<pageCache, imageCache, imgRequests>>
styleVars == <<loadedStyles, headLinks>>
mainStyleVars == <<opacity, pointerEvents, transition>>
pageVars == <<scrollTop, mainHTML, docTitle, bodyClass, navActive>>
histVars == <<hist, hidx, pushes, location>>
playerVars == <<playerState, playerCalls>>
navVars == <<navState, sidebarClasses>>

(***************************************************************************)
(* Helpers                                                                 *)
(***************************************************************************)
Last(s) == s[Len(s)]

RECURSIVE Count(_, _)
Count(s, x) ==
    IF s = <<>> THEN 0
    ELSE (IF s[1] = x THEN 1 ELSE 0) + Count(Tail(s), x)

TaskIds == 1..Len(tasks)
NavIds == {t \in TaskIds : tasks[t].kind = "nav"}
PreIds == {t \in TaskIds : tasks[t].kind = "pre"}

(***************************************************************************)
(* Pure functions of the module                                            *)
(***************************************************************************)
\* url.split('/').pop() || 'index.html'
FileName(url) ==
    IF Last(Segments(url)) = "" THEN "index.html" ELSE Last(Segments(url))

\* extractContent(html)
ExtractStyles(links) ==
    LET keep(l) == /\ l.rel = "stylesheet"
                   /\ l.href # ""
                   /\ ~StartsWithHttp(l.href)
                   /\ EndsWithCss(l.href)
        kept == SelectSeq(links, keep)
    IN [i \in 1..Len(kept) |-> kept[i].href]

ExtractMain(html) ==
    IF html.main = <<>> THEN EmptyMarkup ELSE html.main[1]

\* Mutant of ExtractTitle: no default for an empty or missing <title>.
ExtractTitleRaw(html) == IF html.title = <<>> THEN "" ELSE html.title[1]

\* Mutant of ExtractTitle: the placeholder whatever the markup.
ExtractTitlePlaceholder(html) == DefaultTitle

ExtractTitle(html) ==
    IF html.title = <<>> \/ html.title[1] = "" THEN DefaultTitle
    ELSE html.title[1]

extractContent(html) ==
    [main |-> ExtractMain(html),
     title |-> ExtractTitle(html),
     bodyClass |-> html.bodyClass,
     styles |-> ExtractStyles(html.links)]

\* Mutant of AlreadyLoaded: the loadedStyles.has(href) test never skips.
AlreadyLoadedNever(loaded, href) == FALSE

\* loadPageStyles(styles): the forEach over styles, from the state st =
\* [head, loaded, waits]; waits collects the links whose promise is pushed.

AlreadyLoaded(loaded, href) == href \in loaded

RECURSIVE LoadStylesFrom(_, _)
LoadStylesFrom(styles, st) ==
    IF styles = <<>> THEN st
    ELSE LET href == Head(styles)
         IN IF AlreadyLoaded(st.loaded, href)
            THEN LoadStylesFrom(Tail(styles), st)
            ELSE LoadStylesFrom(Tail(styles),
                     [head |-> Append(st.head, [href |-> href, st |-> "loading"]),
                      loaded |-> st.loaded \cup {href},
                      waits |-> st.waits \cup {Len(st.head) + 1}])

loadPageStyles(styles) ==
    LoadStylesFrom(styles,
        [head |-> headLinks, loaded |-> loadedStyles, waits |-> {}])

\* preloadImage(src) applied to each src of srcs in order, from the state
\* st = [cache, reqs].
\* Mutant of SkipsImage: imageCache is not consulted.
SkipsImageEmptyOnly(cache, src) == src = ""

\* Line 51: preloadImage returns at once.
SkipsImage(cache, src) == src = "" \/ src \in cache

RECURSIVE PreloadImages(_, _)
PreloadImages(srcs, st) ==
    IF srcs = <<>> THEN st
    ELSE LET src == Head(srcs)
         IN IF SkipsImage(st.cache, src)
            THEN PreloadImages(Tail(srcs), st)
            ELSE PreloadImages(Tail(srcs),
                     [cache |-> st.cache \cup {src},
                      reqs |-> Append(st.reqs, src)])

\* preloadImagesFromHTML(html)
preloadImagesFromHTML(html) ==
    PreloadImages(SelectSeq(ExtractMain(html).imgs, MatchesImgRegex),
                  [cache |-> imageCache, reqs |-> imgRequests])

\* preloadVisibleImages() on a document whose <main> holds markup m.
preloadVisibleImages(m) ==
    LET images == SelectSeq(ShellImgs \o m.imgs, ContainsUnsplash)
    IN PreloadImages([i \in 1..Len(images) |-> ResolvedSrc(images[i])],
                     [cache |-> imageCache, reqs |-> imgRequests])

\* Mutant of updateActiveNav: classList.add on the match, nothing removed.
updateActiveNavAddOnly(url) ==
    navActive \cup {i \in 1..Len(NavLinks) : NavLinks[i] = url}

\* updateActiveNav(url): the nav links (by position) left with 'active'.
updateActiveNav(url) ==
    LET filename == FileName(url)
        isActive(href) == \/ href = filename
                          \/ (filename = "index.html" /\ href = "index.html")
                          \/ (filename = "" /\ href = "index.html")
    IN {i \in 1..Len(NavLinks) : isActive(NavLinks[i])}

\* Mutant of PushState: replaceState in place of pushState.
PushStateReplacing(entries, idx, entry) ==
    [entries |-> [entries EXCEPT ![idx] = entry], idx |-> idx]

\* history.pushState(state, title, url) on the session history.
PushState(entries, idx, entry) ==
    [entries |-> Append(SubSeq(entries, 1, idx), entry), idx |-> idx + 1]

\* Mutant of CacheHas: the cache is never consulted.
CacheHasNever(url) == FALSE

\* pageCache.has(url), pageCache.get(url), pageCache.set(url, html); the
\* map holds, per url, no value or one.
CacheHas(url) == pageCache[url] # <<>>

CacheGet(url) == pageCache[url][1]

CacheSet(url, html) == [pageCache EXCEPT ![url] = <<html>>]

\* handleLinkClick's filter: the click is intercepted.
\* Mutant of Intercepts: the extension tested is one no href of the site
\* ends with.
InterceptsNone(href) == href # "" /\ ~StartsWithHttp(href) /\ FALSE

Intercepts(href) ==
    ~(\/ href = ""
      \/ StartsWithHttp(href)
      \/ StartsWithHash(href)
      \/ StartsWithMailto(href)
      \/ ~EndsWithHtml(href))

\* handleLinkHover's filter
HoverPreloads(href) ==
    href # "" /\ EndsWithHtml(href) /\ ~StartsWithHttp(href)

(***************************************************************************)
(* The player (js/player.js)                                               *)
(*                                                                         *)
(* Numbers are kept as integers: volume and the level given to setVolume   *)
(* are in hundredths (0.7 is 70), duration is in seconds and currentTime   *)
(* is in hundredths of a second, so that (clamped / 100) * duration is     *)
(* clamped * duration.                                                     *)
(***************************************************************************)
\* playerState.currentTrack before any track was loaded (null).
NoTrack == <<>>

\* The default duration of loadTrack (3:30), and the initial volume (0.7).
DefaultDuration == 210
InitialVolume == 70
\* 1 in the unit of volume, 100 % of the progress bar, and one second in the
\* unit of currentTime.
FullVolume == 100
FullProgress == 100
Second == 100

RepeatModes == <<"none", "all", "one">>

InitialPlayerState ==
    [isPlaying |-> FALSE, currentTrack |-> NoTrack, currentTime |-> 0,
     duration |-> 0, volume |-> InitialVolume, isMuted |-> FALSE,
     isShuffled |-> FALSE, repeatMode |-> "none"]

MathMax(a, b) == IF a >= b THEN a ELSE b
MathMin(a, b) == IF a <= b THEN a ELSE b

clamp(value, min, max) == MathMin(MathMax(value, min), max)

\* trackData.f || default, for a field holding a string, and for one holding
\* a number: a field that is absent, "" or 0 gives the default.
OrString(trackData, f, default) ==
    IF f \in DOMAIN trackData /\ trackData[f] # "" THEN trackData[f]
    ELSE default

OrNumber(trackData, f, default) ==
    IF f \in DOMAIN trackData /\ trackData[f] # 0 THEN trackData[f]
    ELSE default

togglePlayStarts(s) == [s EXCEPT !.isPlaying = TRUE]

togglePlay(s) == [s EXCEPT !.isPlaying = ~@]

setProgressUnclamped(s, percentage) ==
    [s EXCEPT !.currentTime = percentage * s.duration]

setVolumeUnclamped(s, level) ==
    [s EXCEPT !.volume = level, !.isMuted = (level = 0)]

setProgress(s, percentage) ==
    LET clamped == clamp(percentage, 0, FullProgress)
    IN  [s EXCEPT !.currentTime = clamped * s.duration]

setVolume(s, level) ==
    LET volume == clamp(level, 0, FullVolume)
    IN  [s EXCEPT !.volume = volume, !.isMuted = (volume = 0)]

toggleMute(s) == [s EXCEPT !.isMuted = ~@]

loadTrackKeepsPosition(s, trackData) ==
    IF trackData = NoTrack THEN s
    ELSE [s EXCEPT
            !.currentTrack =
                [id |-> OrString(trackData, "id", ""),
                 title |-> OrString(trackData, "title", "Unknown Track"),
                 artist |-> OrString(trackData, "artist", "Unknown Artist"),
                 image |-> OrString(trackData, "image", "")],
            !.duration = OrNumber(trackData, "duration", DefaultDuration),
            !.isPlaying = TRUE]

\* trackData = NoTrack stands for a call without track data (!trackData).
loadTrack(s, trackData) ==
    IF trackData = NoTrack THEN s
    ELSE [s EXCEPT
            !.currentTrack =
                [id |-> OrString(trackData, "id", ""),
                 title |-> OrString(trackData, "title", "Unknown Track"),
                 artist |-> OrString(trackData, "artist", "Unknown Artist"),
                 image |-> OrString(trackData, "image", "")],
            !.currentTime = 0,
            !.duration = OrNumber(trackData, "duration", DefaultDuration),
            !.isPlaying = TRUE]

toggleShuffle(s) == [s EXCEPT !.isShuffled = ~@]

\* modes.indexOf(repeatMode), from 0
IndexOfMode(mode) ==
    (CHOOSE i \in 1..Len(RepeatModes) : RepeatModes[i] = mode) - 1

cycleRepeat(s) ==
    [s EXCEPT !.repeatMode =
        RepeatModes[((IndexOfMode(@) + 1) % Len(RepeatModes)) + 1]]

(***************************************************************************)
(* The navigation module (sidebar and current page)                        *)
(***************************************************************************)
InitialNavState ==
    [currentPage |-> "home", sidebarCollapsed |-> FALSE,
     sidebarHidden |-> FALSE]

\* href.replace('.html', '').replace('index', 'home') for the href of the
\* nav links
LinkPage(href) ==
    CASE href = IndexUrl -> "home"
      [] href = TrendingUrl -> "trending"
      [] OTHER -> href

setActivePageAlways(s, pageName) == [s EXCEPT !.currentPage = pageName]

\* setActivePage(pageName): its effect on navState ("" stands for any falsy
\* name), and the nav links it leaves with the class 'active'.
setActivePage(s, pageName) ==
    IF pageName = "" THEN s ELSE [s EXCEPT !.currentPage = pageName]

ActiveLinksOf(pageName) ==
    {i \in 1..Len(NavLinks) :
        \/ LinkPage(NavLinks[i]) = pageName
        \/ (pageName = "home" /\ NavLinks[i] = "index.html")}

(***************************************************************************)
(* Initial state: the entry document is loaded, the script has not run     *)
(***************************************************************************)
(***************************************************************************)
(* The SPA navigation module of the bundle (section 7 of the bundled        *)
(* script), on a page of its own that receives the same events.  b is the  *)
(* record of that page: the module's pageCache, its navigateTo calls in    *)
(* call order ([url, pc, html]), and the parts of the page it writes.      *)
(***************************************************************************)
InitialBundle(entry, main) ==
    [inited |-> FALSE,
     pageCache |-> [u \in Urls |-> <<>>],
     tasks |-> <<>>,
     opacity |-> "", pointerEvents |-> "", transition |-> "", scrollTop |-> 1,
     mainHTML |-> main,
     docTitle |-> EntryTitle,
     navActive |-> {i \in 1..Len(NavLinks) : NavLinks[i] = EntryUrl},
     hist |-> <<[state |-> <<>>, title |-> EntryTitle, url |-> entry]>>,
     hidx |-> 1,
     location |-> entry,
     hardNavs |-> <<>>,
     pageloads |-> 0]

\* entry: the location the entry document was loaded at; main: the markup
\* of its <main> element (NoMain: it has none).
InitWith(entry, main) ==
    /\ inited = FALSE
    /\ preloadTimer = FALSE
    /\ pageCache = [u \in Urls |-> <<>>]
    /\ imageCache = {}
    /\ loadedStyles = {}
    /\ headLinks = <<>>
    /\ imgRequests = <<>>
    /\ requests = [u \in Urls |-> 0]
    /\ tasks = <<>>
    /\ opacity = ""
    /\ pointerEvents = ""
    /\ transition = ""
    /\ scrollTop = 1
    /\ mainHTML = main
    /\ docTitle = EntryTitle
    /\ bodyClass = EntryBodyClass
    /\ navActive = {i \in 1..Len(NavLinks) : NavLinks[i] = EntryUrl}
    /\ hist = <<[state |-> <<>>, title |-> EntryTitle, url |-> entry]>>
    /\ hidx = 1
    /\ pushes = 0
    /\ location = entry
    /\ hardNavs = <<>>
    /\ pageloads = 0
    /\ followed = {}
    /\ playerState = InitialPlayerState
    /\ playerCalls = <<"", "">>
    /\ navState = InitialNavState
    /\ sidebarClasses = {}
    /\ prevented = {}
    /\ bundle = InitialBundle(entry, main)

InitAt(entry) == InitWith(entry, EntryMain)

Init == InitAt(EntryUrl)

(***************************************************************************)
(* initSPA                                                                 *)
(***************************************************************************)
\* Mutant of ReplaceState: an entry is added after the current one.
ReplaceStatePushing(entries, idx, entry) ==
    Append(SubSeq(entries, 1, idx), entry)

\* history.replaceState: the entries after it.
ReplaceState(entries, idx, entry) == [entries EXCEPT ![idx] = entry]

\* Mutant of RegisteredStyles: initSPA registers no stylesheet.
RegisteredStylesNone(links) == {}

\* Lines 280-285: the hrefs initSPA adds to loadedStyles, from the document's
\* link elements.
RegisteredStyles(links) ==
    {links[i].href : i \in {j \in 1..Len(links) :
        /\ links[j].rel = "stylesheet"
        /\ links[j].href # ""
        /\ ~StartsWithHttp(links[j].href)}}

InitSPA ==
    /\ ~inited
    /\ inited' = TRUE
    /\ loadedStyles' = RegisteredStyles(EntryLinks)
    /\ LET pi == preloadVisibleImages(mainHTML)
       IN imageCache' = pi.cache /\ imgRequests' = pi.reqs
    /\ hist' = ReplaceState(hist, hidx,
                   [state |-> <<FileName(Pathname(location))>>,
                    title |-> docTitle, url |-> location])
    /\ preloadTimer' = TRUE
    /\ UNCHANGED <<pageCache, headLinks, requests, tasks, mainStyleVars,
                   pageVars, hidx, pushes, location, hardNavs, pageloads,
                   followed,
                   playerVars, navVars, prevented, bundle>>

(***************************************************************************)
(* navigateTo(url), lines 128-156: from the call to its first suspension   *)
(***************************************************************************)
\* What lines 147-156 do once html is at hand: extract, append the missing
\* stylesheets, and either suspend on them or (nothing to wait for: the await
\* resumes in the same microtask checkpoint) start the fade-out and suspend on
\* the 150 ms timer.
AfterHtml(html) ==
    LET ls == loadPageStyles(extractContent(html).styles)
    IN [head |-> ls.head, loaded |-> ls.loaded, waits |-> ls.waits,
        pc |-> IF ls.waits = {} THEN "fade" ELSE "styles"]

\* via names the caller: "click" (handleLinkClick) or "pop" (handlePopState).
\* In a document without <main> line 131 returns.  On a cache hit nothing is
\* awaited before line 150.
HasMainAlways == TRUE

\* document.querySelector('main') is not null
HasMain == mainHTML # NoMain

NavigateTo(url, via) ==
    IF ~HasMain
    THEN UNCHANGED <<inited, preloadTimer, cacheVars, styleVars, requests,
                     tasks, mainStyleVars, pageVars, hardNavs, pageloads,
                     followed, playerVars, navVars, bundle>>
    ELSE
    /\ Len(tasks) < MaxTasks
    /\ pointerEvents' = "none"
    /\ IF CacheHas(url)
       THEN LET html == CacheGet(url)
                a == AfterHtml(html)
            IN /\ tasks' = Append(tasks,
                       [kind |-> "nav", via |-> via, url |-> url, pc |-> a.pc,
                        html |-> <<html>>, waits |-> a.waits, hit |-> TRUE])
               /\ headLinks' = a.head
               /\ loadedStyles' = a.loaded
               /\ opacity' = IF a.pc = "fade" THEN FadedOpacity ELSE DimOpacity
               /\ transition' = IF a.pc = "fade" THEN FadeTransition ELSE transition
               /\ UNCHANGED requests
       ELSE /\ tasks' = Append(tasks,
                    [kind |-> "nav", via |-> via, url |-> url, pc |-> "fetch",
                     html |-> <<>>, waits |-> {}, hit |-> FALSE])
            /\ requests' = [requests EXCEPT ![url] = @ + 1]
            /\ opacity' = DimOpacity
            /\ UNCHANGED <<headLinks, loadedStyles, transition>>
    /\ UNCHANGED <<inited, preloadTimer, cacheVars, pageVars, hardNavs,
                   pageloads, followed, playerVars, navVars, bundle>>

(***************************************************************************)
(* preloadPage(url), lines 84-88: from the call to the await of fetch      *)
(***************************************************************************)
PreloadTask(url) ==
    [kind |-> "pre", via |-> "preload", url |-> url, pc |-> "fetch",
     html |-> <<>>, waits |-> {}, hit |-> FALSE]

PreloadPageJoining(url) ==
    /\ Len(tasks) < MaxTasks
    /\ ~CacheHas(url)
    /\ tasks' = Append(tasks, PreloadTask(url))
    /\ requests' =
           IF \E o \in TaskIds : tasks[o].url = url /\ tasks[o].pc = "fetch"
           THEN requests
           ELSE [requests EXCEPT ![url] = @ + 1]
    /\ UNCHANGED <<inited, preloadTimer, cacheVars, styleVars, mainStyleVars,
                   pageVars, histVars, hardNavs, pageloads, followed,
                   playerVars, navVars, prevented, bundle>>

PreloadPage(url) ==
    /\ Len(tasks) < MaxTasks
    /\ ~CacheHas(url)
    /\ tasks' = Append(tasks, PreloadTask(url))
    /\ requests' = [requests EXCEPT ![url] = @ + 1]
    /\ UNCHANGED <<inited, preloadTimer, cacheVars, styleVars, mainStyleVars,
                   pageVars, histVars, hardNavs, pageloads, followed,
                   playerVars, navVars, prevented, bundle>>

(***************************************************************************)
(* Event handlers                                                          *)
(***************************************************************************)
\* handleLinkClick on an anchor with this href
ClickLink(href) ==
    /\ inited
    /\ Intercepts(href)
    /\ NavigateTo(href, "click")
    /\ prevented' = prevented \cup {href}
    /\ UNCHANGED histVars

\* handleLinkHover on an anchor with this href
HoverLink(href) ==
    /\ inited
    /\ HoverPreloads(href)
    /\ PreloadPage(href)

\* Mutant of PopStateUrl: the event's state is ignored.
PopStateUrlFromLocation(i) == FileName(Pathname(hist[i].url))

\* handlePopState(e), the browser having made entry i the current one
PopStateUrl(i) ==
    IF hist[i].state # <<>> /\ hist[i].state[1] # ""
    THEN hist[i].state[1]
    ELSE FileName(Pathname(hist[i].url))

HandlePopState(i) ==
    /\ hidx' = i
    /\ location' = hist[i].url
    /\ NavigateTo(PopStateUrl(i), "pop")
    /\ UNCHANGED <<hist, pushes, followed,
                   playerVars, navVars, prevented, bundle>>

\* The user's back and forward buttons
Back ==
    /\ inited
    /\ hidx > 1
    /\ HandlePopState(hidx - 1)

Forward ==
    /\ inited
    /\ hidx < Len(hist)
    /\ HandlePopState(hidx + 1)

\* The 2000 ms timer of initSPA: preloadPage for every nav link
NavLinkPreloads ==
    SelectSeq(NavLinks, LAMBDA h : h # "" /\ EndsWithHtml(h) /\ ~CacheHas(h))

PreloadTimerFiresAborting ==
    /\ preloadTimer
    /\ Len(tasks) + Len(NavLinkPreloads) <= MaxTasks
    /\ preloadTimer' = FALSE
    /\ LET aborted == [t \in TaskIds |->
                          IF tasks[t].kind = "nav" /\ tasks[t].pc = "fetch"
                          THEN [tasks[t] EXCEPT !.pc = "fallback"]
                          ELSE tasks[t]]
       IN  tasks' = aborted \o [i \in 1..Len(NavLinkPreloads) |->
                                   PreloadTask(NavLinkPreloads[i])]
    /\ hardNavs' = hardNavs \o
           SelectSeq([t \in TaskIds |-> tasks[t].url],
                     LAMBDA u : \E t \in NavIds :
                                   tasks[t].url = u /\ tasks[t].pc = "fetch")
    /\ requests' = [u \in Urls |-> requests[u] + Count(NavLinkPreloads, u)]
    /\ UNCHANGED <<inited, cacheVars, styleVars, mainStyleVars, pageVars,
                   histVars, pageloads, followed, playerVars, navVars, prevented, bundle>>

PreloadTimerFires ==
    /\ preloadTimer
    /\ Len(tasks) + Len(NavLinkPreloads) <= MaxTasks
    /\ preloadTimer' = FALSE
    /\ tasks' = tasks \o [i \in 1..Len(NavLinkPreloads) |->
                             PreloadTask(NavLinkPreloads[i])]
    /\ requests' = [u \in Urls |-> requests[u] + Count(NavLinkPreloads, u)]
    /\ UNCHANGED <<inited, cacheVars, styleVars, mainStyleVars, pageVars,
                   histVars, hardNavs, pageloads, followed,
                   playerVars, navVars, prevented, bundle>>

(***************************************************************************)
(* Resumptions of the suspended tasks                                      *)
(***************************************************************************)
SetTask(t, r) == [tasks EXCEPT ![t] = r]

\* A task at pc "fetch" is suspended in `await fetch(url)` or, the response
\* having arrived, in `await response.text()`: nothing reads the response
\* between the two awaits, so the two are passed in one step, which resolves
\* with the body or rejects (the rejection of either promise).

\* navigateTo: fetch and response.text() resolve with body; lines 142-156
NavTextResolves(t, body) ==
    /\ t \in NavIds /\ tasks[t].pc = "fetch"
    /\ body \in ServerBodies(tasks[t].url)
    /\ pageCache' = CacheSet(tasks[t].url, body)
    /\ LET a == AfterHtml(body)
       IN /\ tasks' = SetTask(t, [tasks[t] EXCEPT !.pc = a.pc,
                                     !.html = <<body>>, !.waits = a.waits])
          /\ headLinks' = a.head
          /\ loadedStyles' = a.loaded
          /\ opacity' = IF a.pc = "fade" THEN FadedOpacity ELSE opacity
          /\ transition' = IF a.pc = "fade" THEN FadeTransition ELSE transition
    /\ UNCHANGED <<inited, preloadTimer, imageCache, imgRequests, requests,
                   pointerEvents, pageVars, histVars, hardNavs, pageloads,
                   followed,
                   playerVars, navVars, prevented, bundle>>

\* Mutant of FallbackUrl: the fallback loads the home page.
FallbackUrlHome(url) == IndexUrl

\* navigateTo: fetch(url) or response.text() rejects; the catch, line 182
FallbackUrl(url) == url

NavFetchFailsRetitling(t) ==
    /\ t \in NavIds /\ tasks[t].pc = "fetch"
    /\ tasks' = SetTask(t, [tasks[t] EXCEPT !.pc = "fallback"])
    /\ hardNavs' = Append(hardNavs, FallbackUrl(tasks[t].url))
    /\ docTitle' = DefaultTitle
    /\ UNCHANGED <<inited, preloadTimer, cacheVars, styleVars, requests,
                   mainStyleVars, scrollTop, mainHTML, bodyClass, navActive,
                   histVars, pageloads, followed, playerVars, navVars, prevented, bundle>>

NavFetchFails(t) ==
    /\ t \in NavIds /\ tasks[t].pc = "fetch"
    /\ tasks' = SetTask(t, [tasks[t] EXCEPT !.pc = "fallback"])
    /\ hardNavs' = Append(hardNavs, FallbackUrl(tasks[t].url))
    /\ UNCHANGED <<inited, preloadTimer, cacheVars, styleVars, requests,
                   mainStyleVars, pageVars, histVars, pageloads, followed,
                   playerVars, navVars, prevented, bundle>>

\* preloadPage: fetch and response.text() resolve with body; lines 88-91
PreTextResolves(t, body) ==
    /\ t \in PreIds /\ tasks[t].pc = "fetch"
    /\ body \in ServerBodies(tasks[t].url)
    /\ pageCache' = CacheSet(tasks[t].url, body)
    /\ LET pi == preloadImagesFromHTML(body)
       IN imageCache' = pi.cache /\ imgRequests' = pi.reqs
    /\ tasks' = SetTask(t, [tasks[t] EXCEPT !.pc = "done", !.html = <<body>>])
    /\ UNCHANGED <<inited, preloadTimer, styleVars, requests, mainStyleVars,
                   pageVars, histVars, hardNavs, pageloads, followed,
                   playerVars, navVars, prevented, bundle>>

\* Mutant of PreFetchFails: the catch caches an empty document for the url.
PreFetchFailsCaching(t) ==
    /\ t \in PreIds /\ tasks[t].pc = "fetch"
    /\ tasks' = SetTask(t, [tasks[t] EXCEPT !.pc = "failed"])
    /\ pageCache' = CacheSet(tasks[t].url,
           [main |-> <<>>, title |-> <<>>, bodyClass |-> "", links |-> <<>>])
    /\ UNCHANGED <<inited, preloadTimer, imageCache, imgRequests, styleVars,
                   requests, mainStyleVars, pageVars, histVars, hardNavs,
                   pageloads, followed,
                   playerVars, navVars, prevented, bundle>>

\* Mutant of PreFetchFails: the catch falls back like navigateTo's.
PreFetchFailsHard(t) ==
    /\ t \in PreIds /\ tasks[t].pc = "fetch"
    /\ tasks' = SetTask(t, [tasks[t] EXCEPT !.pc = "failed"])
    /\ hardNavs' = Append(hardNavs, tasks[t].url)
    /\ UNCHANGED <<inited, preloadTimer, cacheVars, styleVars, requests,
                   mainStyleVars, pageVars, histVars, pageloads, followed,
                   playerVars, navVars, prevented, bundle>>

\* preloadPage: fetch(url) or response.text() rejects; the empty catch
PreFetchFails(t) ==
    /\ t \in PreIds /\ tasks[t].pc = "fetch"
    /\ tasks' = SetTask(t, [tasks[t] EXCEPT !.pc = "failed"])
    /\ UNCHANGED <<inited, preloadTimer, cacheVars, styleVars, requests,
                   mainStyleVars, pageVars, histVars, hardNavs, pageloads,
                   followed,
                   playerVars, navVars, prevented, bundle>>

\* An appended <link> fires load or error: its promise resolves, and the
\* navigation whose Promise.all is thereby complete starts its fade-out
\* (lines 150-156).
StyleEvent(i, outcome) ==
    /\ i \in 1..Len(headLinks) /\ headLinks[i].st = "loading"
    /\ headLinks' = [headLinks EXCEPT ![i].st = outcome]
    /\ LET resumed == {t \in NavIds : tasks[t].pc = "styles"
                                      /\ tasks[t].waits = {i}}
       IN /\ tasks' = [t \in TaskIds |->
                          IF t \in resumed
                          THEN [tasks[t] EXCEPT !.pc = "fade", !.waits = {}]
                          ELSE [tasks[t] EXCEPT !.waits = @ \ {i}]]
          /\ opacity' = IF resumed # {} THEN FadedOpacity ELSE opacity
          /\ transition' = IF resumed # {} THEN FadeTransition ELSE transition
    /\ UNCHANGED <<inited, preloadTimer, cacheVars, loadedStyles, requests,
                   pointerEvents, pageVars, histVars, hardNavs, pageloads,
                   followed,
                   playerVars, navVars, prevented, bundle>>

StyleLoads(i) == StyleEvent(i, "loaded")

\* Mutant of StyleErrors: onerror marks the link but resolves no promise.
StyleErrorsUnresolved(i) ==
    /\ i \in 1..Len(headLinks) /\ headLinks[i].st = "loading"
    /\ headLinks' = [headLinks EXCEPT ![i].st = "error"]
    /\ UNCHANGED <<inited, preloadTimer, cacheVars, loadedStyles, requests,
                   tasks, mainStyleVars, pageVars, histVars, hardNavs,
                   pageloads, followed,
                   playerVars, navVars, prevented, bundle>>

StyleErrors(i) == StyleEvent(i, "error")

SettledOpacity == FullOpacity

\* Mutant of reinitPage: the event is dispatched for the images too.
reinitPageTwice(n) == n + 2

\* reinitPage(): the count of 'spa:pageload' events after it, n before.  Its
\* wiring of the lazy images touches only the inline style of <img>
\* elements, which is not part of the state.
reinitPage(n) == n + 1

\* Mutant of HistoryEntry: the entry pushed names the page being left.
HistoryEntryLeaving(url, title) ==
    [state |-> <<location>>, title |-> docTitle, url |-> location]

HistoryEntry(url, title) == [state |-> <<url>>, title |-> title, url |-> url]

\* The 150 ms timer fires; lines 158-178.
FadeTimeout(t) ==
    /\ t \in NavIds /\ tasks[t].pc = "fade"
    /\ LET url == tasks[t].url
           content == extractContent(tasks[t].html[1])
           h == PushState(hist, hidx, HistoryEntry(url, content.title))
           pi == preloadVisibleImages(content.main)
       IN /\ mainHTML' = content.main
          /\ docTitle' = content.title
          /\ hist' = h.entries
          /\ hidx' = h.idx
          /\ pushes' = pushes + 1
          /\ location' = url
          /\ navActive' = updateActiveNav(url)
          /\ imageCache' = pi.cache
          /\ imgRequests' = pi.reqs
    /\ opacity' = SettledOpacity
    /\ pointerEvents' = ""
    /\ scrollTop' = 0
    /\ pageloads' = reinitPage(pageloads)
    /\ tasks' = SetTask(t, [tasks[t] EXCEPT !.pc = "settled"])
    /\ UNCHANGED <<inited, preloadTimer, pageCache, styleVars, requests,
                   transition, bodyClass, hardNavs, followed,
                   playerVars, navVars, prevented, bundle>>

(***************************************************************************)
(* Specification                                                           *)
(***************************************************************************)
Outcomes == {"loaded", "error"}

Next ==
    \/ InitSPA
    \/ \E href \in ShellHrefs : ClickLink(href)
    \/ \E href \in ShellHrefs : HoverLink(href)
    \/ Back
    \/ Forward
    \/ PreloadTimerFires
    \/ \E t \in TaskIds : \E body \in ServerBodies(tasks[t].url) :
           NavTextResolves(t, body)
    \/ \E t \in TaskIds : NavFetchFails(t)
    \/ \E t \in TaskIds : \E body \in ServerBodies(tasks[t].url) :
           PreTextResolves(t, body)
    \/ \E t \in TaskIds : PreFetchFails(t)
    \/ \E i \in 1..Len(headLinks) : StyleLoads(i)
    \/ \E i \in 1..Len(headLinks) : StyleErrors(i)
    \/ \E t \in TaskIds : FadeTimeout(t)

Spec == Init /\ [][Next]_vars

\* Navigations one at a time (a link is clicked only when no call is in
\* flight), over every in-site link: the shell's and the page content's.
Idle ==
    \A t \in TaskIds : tasks[t].pc \in {"settled", "fallback", "done", "failed"}

SeqClick(href) == Idle /\ ClickLink(href)

NextSeq ==
    \/ InitSPA
    \/ \E href \in SiteUrls : SeqClick(href)
    \/ \E t \in TaskIds : \E body \in ServerBodies(tasks[t].url) :
           NavTextResolves(t, body)
    \/ \E t \in TaskIds : NavFetchFails(t)
    \/ \E i \in 1..Len(headLinks) : StyleLoads(i)
    \/ \E i \in 1..Len(headLinks) : StyleErrors(i)
    \/ \E t \in TaskIds : FadeTimeout(t)

SpecSeq == Init /\ [][NextSeq]_vars

\* The src values a caller of the exported preloadImage passes.
ApiSrcs == {"", ImgA, ImgShell}

\* window.SPA.preloadImage(src), lines 50-56 through the export of line 329.
PreloadImageCall(src) ==
    /\ LET pi == PreloadImages(<<src>>,
                     [cache |-> imageCache, reqs |-> imgRequests])
       IN imageCache' = pi.cache /\ imgRequests' = pi.reqs
    /\ UNCHANGED <<inited, preloadTimer, pageCache, styleVars, requests, tasks,
                   mainStyleVars, pageVars, histVars, hardNavs, pageloads,
                   followed,
                   playerVars, navVars, prevented, bundle>>

\* Every caller of preloadImage, one page load at a time: initSPA and
\* navigateTo (images of the document), preloadPage (images of the markup
\* text), and the export.
NextImg ==
    \/ NextSeq
    \/ \E href \in ShellHrefs : Idle /\ HoverLink(href)
    \/ \E t \in TaskIds : \E body \in ServerBodies(tasks[t].url) :
           PreTextResolves(t, body)
    \/ \E t \in TaskIds : PreFetchFails(t)
    \/ \E src \in ApiSrcs : PreloadImageCall(src)

SpecImg == Init /\ [][NextImg]_vars

\* A click on a fragment link of the page (handleLinkClick returns at line
\* 240 without preventDefault): the browser adds an entry with no state for
\* the same document and fires no popstate.  (Left out: the click that
\* recreates the very entry that follows the current one; the state does not
\* tell it from the forward button.)
ClickFragment ==
    /\ inited
    /\ ~HasFragment(location)
    /\ hidx < Len(hist) => hist[hidx + 1].url # WithFragment(location)
    /\ LET h == PushState(hist, hidx,
                    [state |-> <<>>, title |-> docTitle,
                     url |-> WithFragment(location)])
       IN hist' = h.entries /\ hidx' = h.idx
    /\ location' = WithFragment(location)
    /\ UNCHANGED <<inited, preloadTimer, cacheVars, styleVars, requests, tasks,
                   mainStyleVars, pageVars, pushes, hardNavs, pageloads,
                   followed,
                   playerVars, navVars, prevented, bundle>>

\* The locations the entry document is loaded at in SpecPop.
EntryLocations == {EntryUrl, RootPath, HomeAlias}

InitPop == \E entry \in EntryLocations : InitAt(entry)

\* One navigation at a time, with the back and forward buttons and entries
\* made by the browser itself.
NextPop ==
    \/ NextSeq
    \/ Idle /\ Back
    \/ Idle /\ Forward
    \/ Idle /\ ClickFragment

SpecPop == InitPop /\ [][NextPop]_vars

\* The steps the environment owes a started navigation: its fetch resolves
\* or rejects, an appended stylesheet fires load or error, its timer fires.
Progress ==
    \/ \E t \in TaskIds : \E body \in ServerBodies(tasks[t].url) :
           NavTextResolves(t, body)
    \/ \E t \in TaskIds : NavFetchFails(t)
    \/ \E i \in 1..Len(headLinks) : StyleLoads(i)
    \/ \E i \in 1..Len(headLinks) : StyleErrors(i)
    \/ \E t \in TaskIds : FadeTimeout(t)

\* Bound on the navigations started in the behaviours of FairSpec.
MaxFairNavs == 2

FairClick(href) == Len(tasks) < MaxFairNavs /\ ClickLink(href)

\* Clicks at any moment (navigations overlap) and the navigations' own steps.
NextNav ==
    \/ InitSPA
    \/ \E href \in ShellHrefs : FairClick(href)
    \/ Progress

FairSpec == Init /\ [][NextNav]_vars /\ WF_vars(Progress)

\* The href of the anchors a click can land on.
ClickHrefs ==
    {"", IndexUrl, TrendingUrl, ExternalPage, Fragment, MailHref, PdfHref,
     QueryHref}

\* What the browser does with a click on a link that handleLinkClick
\* returned from without preventDefault: it follows the link (for a fragment
\* link, within the document).
DefaultAction(href) ==
    IF StartsWithHash(href) THEN ClickFragment
    ELSE /\ followed' = followed \cup {href}
         /\ UNCHANGED <<inited, preloadTimer, cacheVars, styleVars, requests,
                        tasks, mainStyleVars, pageVars, histVars, hardNavs,
                        pageloads, playerVars, navVars, prevented, bundle>>

\* handleLinkClick(e), e.target inside an anchor with this href attribute.
HandleLinkClick(href) ==
    /\ inited
    /\ IF Intercepts(href) THEN ClickLink(href) ELSE DefaultAction(href)

\* Clicks on links of every kind, one navigation at a time.
NextClick ==
    \/ InitSPA
    \/ \E href \in ClickHrefs : Idle /\ HandleLinkClick(href)
    \/ Progress

SpecClick == Init /\ [][NextClick]_vars

\* Navigations, one at a time, to the page whose markup has any shape.
NextMarkup ==
    \/ InitSPA
    \/ SeqClick(DegradedUrl)
    \/ Progress

SpecMarkup == Init /\ [][NextMarkup]_vars

(***************************************************************************)
(* Vocabulary of the properties                                            *)
(***************************************************************************)
\* The tasks a step creates (the calls it makes).
Started == (Len(tasks) + 1)..Len(tasks')

\* t issued a network request; the request is pending, succeeded, failed.
Fetched(t) == ~tasks[t].hit
FetchPending(t) == Fetched(t) /\ tasks[t].pc = "fetch"
FetchFailed(t) == Fetched(t) /\ tasks[t].pc \in {"fallback", "failed"}
FetchOk(t) == Fetched(t) /\ tasks[t].pc \in {"styles", "fade", "settled", "done"}

\* The step ends navigation t: it settles, it falls back.
Settles(t) == tasks[t].pc = "fade" /\ tasks'[t].pc = "settled"
FallsBack(t) == tasks[t].pc # "fallback" /\ tasks'[t].pc = "fallback"

(***************************************************************************)
(* C1..C10                                                                 *)
(***************************************************************************)
\* C1: a navigateTo(u) that starts when an earlier navigateTo(u) has settled
\* after a successful fetch issues no request: it is served from pageCache
\* (its markup is the cached value) and never awaits a fetch; when these two
\* navigations are the only calls for u, one request for u was issued in all.
C1_SecondNavigationFromCache ==
    [][\A t \in Started : \A f \in NavIds :
          ( /\ tasks'[t].kind = "nav"
            /\ tasks[f].url = tasks'[t].url
            /\ tasks[f].pc = "settled" /\ FetchOk(f) )
          => /\ requests' = requests
             /\ tasks'[t].hit
             /\ tasks'[t].pc # "fetch"
             /\ tasks'[t].html = pageCache[tasks[f].url]
             /\ (\A g \in TaskIds \ {f} : tasks[g].url # tasks[f].url)
                    => requests'[tasks[f].url] = 1]_vars

C1_Witness ==
    \E f \in NavIds : \E t \in NavIds :
        /\ f < t /\ Len(tasks) = 2
        /\ tasks[f].url = tasks[t].url
        /\ tasks[f].pc = "settled" /\ FetchOk(f)
        /\ tasks[t].pc = "settled" /\ tasks[t].hit
        /\ requests[tasks[f].url] = 1

\* C2 as stated: for every url, at most one request that is pending or has
\* succeeded.
C2_AtMostOneLiveFetch ==
    \A u \in Urls :
        Cardinality({t \in TaskIds : tasks[t].url = u
                        /\ (FetchPending(t) \/ FetchOk(t))}) <= 1

\* C2 amended: a request for u is issued only while pageCache holds no entry
\* for u and no request for u has succeeded; requests for u that are pending
\* or succeeded number more than one only when they overlapped in flight.
C2_RequestOnlyWhileUncached ==
    [][\A u \in Urls :
          requests'[u] # requests[u]
          => /\ requests'[u] > requests[u]
             /\ pageCache[u] = <<>>
             /\ \A t \in TaskIds : tasks[t].url = u => ~FetchOk(t)]_vars

C2_Witness ==
    \E a \in TaskIds : \E b \in TaskIds :
        /\ a # b /\ tasks[a].url = tasks[b].url
        /\ FetchOk(a) /\ FetchOk(b)
        /\ \A t \in TaskIds : ~FetchFailed(t)

\* C3 as stated: the step that ends a navigation, settling or falling back,
\* leaves the content region at opacity '1' with pointer events re-enabled.
C3_EndsUndimmed ==
    [][\A t \in NavIds :
          (Settles(t) \/ FallsBack(t))
          => opacity' = FullOpacity /\ pointerEvents' = ""]_vars

\* C4 as stated: handling a back step leaves the history usable in both
\* directions: when the navigation started by popstate settles, the entries
\* of the session history are the ones the browser had, so the entry the user
\* came back from is still there to go forward to.
C4_PopStateKeepsForward ==
    [][\A t \in NavIds :
          (Settles(t) /\ tasks[t].via = "pop") => hist' = hist]_vars

\* C5 as stated: a popstate navigation to the entry page is served from
\* pageCache, with no request for the entry page.
C5_EntryPageFromCache ==
    \A t \in NavIds :
        (tasks[t].via = "pop" /\ tasks[t].url = EntryUrl) => tasks[t].hit

\* C5 amended: after navigateTo(B) from entry page A, popstate {url: A} starts
\* navigateTo(A); it is served from pageCache without a request exactly when A
\* has an entry at that moment (initSPA caches nothing: only a preload or an
\* earlier navigation to A puts it there), and otherwise issues one request
\* for A; when it settles, the content region and the title are the ones
\* extracted from A's markup as cached or fetched.
C5_PopStateRoundTrip ==
    [][(\A t \in Started :
           (tasks'[t].via = "pop" /\ tasks'[t].url = EntryUrl)
           => IF pageCache[EntryUrl] # <<>>
              THEN requests' = requests
                   /\ tasks'[t].html = pageCache[EntryUrl]
              ELSE requests'[EntryUrl] = requests[EntryUrl] + 1
                   /\ tasks'[t].pc = "fetch")
       /\
       (\A t \in NavIds :
           (Settles(t) /\ tasks[t].via = "pop" /\ tasks[t].url = EntryUrl)
           => (tasks[t].html[1].main = <<mainHTML'>>
               /\ tasks[t].html[1].title = <<docTitle'>>
               /\ tasks[t].html[1] \in ServerBodies(EntryUrl)))]_vars

C5_Witness ==
    \E t \in NavIds :
        /\ tasks[t].via = "pop" /\ tasks[t].url = EntryUrl
        /\ tasks[t].pc = "settled" /\ Fetched(t)
        /\ requests[EntryUrl] = 1
        /\ mainHTML = EntryMain /\ docTitle = EntryTitle
        /\ \E f \in NavIds : f < t /\ tasks[f].url # EntryUrl
                             /\ tasks[f].pc = "settled"

C7_FailureWritesNothing ==
    [][/\ \A t \in TaskIds :
             (FetchPending(t) /\ tasks'[t].pc \in {"fallback", "failed"})
             => pageCache' = pageCache
       /\ \A u \in Urls :
             pageCache'[u] # <<>>
             => \E t \in TaskIds : tasks'[t].url = u
                    /\ tasks'[t].pc \in {"styles", "fade", "settled", "done"}
                    /\ ~tasks'[t].hit
       /\ \A t \in Started :
             (tasks'[t].kind = "nav" /\ pageCache[tasks'[t].url] = <<>>)
             => /\ tasks'[t].pc = "fetch"
                /\ requests'[tasks'[t].url] = requests[tasks'[t].url] + 1]_vars

C7_Witness ==
    \E f \in TaskIds : \E t \in NavIds :
        /\ f < t /\ tasks[f].url = tasks[t].url
        /\ FetchFailed(f) /\ FetchPending(t)
        /\ pageCache[tasks[t].url] = <<>>
        /\ requests[tasks[t].url] = 2

\* C8 as stated: an entry of pageCache, once written, stays, with its value.
C8_EntriesImmutable ==
    [][\A u \in Urls : pageCache[u] # <<>> => pageCache'[u] = pageCache[u]]_vars

\* C9 as stated: every navigation that settles makes the history one entry
\* longer: the length is 1 plus the number of settled navigations.
C9_LengthGrowsPerSettle ==
    Len(hist) = 1 + Cardinality({t \in NavIds : tasks[t].pc = "settled"})

\* C9 amended: each navigateTo(u) that settles calls pushState exactly once,
\* with state {url: u}: the new entry follows the current one and becomes
\* current, the entries after the current one are dropped (so the length
\* grows by one only when the current entry was the last); a navigation that
\* falls back pushes none; n settled navigations make n pushes.
C9_OnePushPerSettle ==
    [][/\ \A t \in NavIds :
             Settles(t)
             => /\ hidx' = hidx + 1
                /\ Len(hist') = hidx + 1
                /\ SubSeq(hist', 1, hidx) = SubSeq(hist, 1, hidx)
                /\ hist'[hidx'].state = <<tasks[t].url>>
                /\ hist'[hidx'].url = tasks[t].url
                /\ (hidx = Len(hist) => Len(hist') = Len(hist) + 1)
       /\ \A t \in NavIds :
             FallsBack(t) => hist' = hist /\ hidx' = hidx /\ pushes' = pushes
       /\ pushes' = Cardinality({t \in 1..Len(tasks') :
                                    tasks'[t].pc = "settled"})]_vars

C9_Witness ==
    /\ Cardinality({t \in NavIds : tasks[t].pc = "settled"}) = 2
    /\ pushes = 2
    /\ Len(hist) = 2
    /\ \E t \in NavIds : tasks[t].pc = "fallback"

LinksNamed(url) ==
    {i \in 1..Len(NavLinks) : NavLinks[i] = Segments(url)[Len(Segments(url))]}

\* C11 as stated: the step that settles navigateTo(u) leaves exactly one nav
\* link with 'active', the one whose href is the file name of u.
C11_ExactlyOneActive ==
    [][\A t \in NavIds :
          Settles(t) => /\ Cardinality(navActive') = 1
                        /\ navActive' = LinksNamed(tasks[t].url)]_vars

\* C11 amended: the step that settles navigateTo(u) leaves 'active' on
\* exactly the nav links whose href equals the file name of u (the text after
\* the last '/'), and on no other: that is one link when one nav link has
\* that href, and none when u is a page no nav link points to.
C11_ActiveIsFileNameMatch ==
    [][\A t \in NavIds :
          Settles(t)
          => /\ navActive' = LinksNamed(tasks[t].url)
             /\ Cardinality(navActive') <= 1
             /\ (tasks[t].url \in {TrendingUrl, SubTrendingUrl}
                    => navActive' = {2})
             /\ (tasks[t].url = AlbumUrl => navActive' = {})]_vars

C11_Witness ==
    /\ Len(tasks) = 2
    /\ tasks[1].url = SubTrendingUrl /\ tasks[1].pc = "settled"
    /\ tasks[2].url = AlbumUrl /\ tasks[2].pc = "settled"
    /\ navActive = {}

\* The positions loadPageStyles appends to the head in a step.
Appended == (Len(headLinks) + 1)..Len(headLinks')

\* C12: the head never holds two loader-appended stylesheet elements with
\* the same href, whatever the number and overlap of the loadPageStyles
\* calls; every appended href is recorded in loadedStyles, and a step appends
\* no element for an href that loadedStyles already holds.
C12_AppendedAtMostOnce ==
    /\ [](/\ \A i, j \in 1..Len(headLinks) :
                headLinks[i].href = headLinks[j].href => i = j
          /\ \A i \in 1..Len(headLinks) : headLinks[i].href \in loadedStyles)
    /\ [][\A i \in Appended : headLinks'[i].href \notin loadedStyles]_vars

C12_Witness ==
    /\ \E t1, t2 \in NavIds :
          /\ t1 # t2
          /\ tasks[t1].html = <<DocTrending>> /\ tasks[t2].html = <<DocTrending>>
          /\ tasks[t1].pc = "styles" /\ tasks[t2].pc = "settled"
    /\ Cardinality({i \in 1..Len(headLinks) : headLinks[i].href = TrendingCss}) = 1

\* The local stylesheets listed by the page task t displays.
StylesOf(t) ==
    LET styles == extractContent(tasks[t].html[1]).styles
    IN {styles[k] : k \in 1..Len(styles)}

\* C13: at the step that places a page's markup in the content region, no
\* local stylesheet listed by that page is still loading: each one appended
\* by the loader has fired load or error.
C13_StylesCompleteAtReplace ==
    [][\A t \in NavIds :
          Settles(t) => \A i \in 1..Len(headLinks) :
                            headLinks[i].href \in StylesOf(t)
                            => headLinks[i].st # "loading"]_vars

\* C14: every step that replaces the content region's markup finds the
\* region fully faded out (opacity '0'), also when another navigation
\* started, and dimmed the region, during this one's fade-out wait.
C14_ReplacedWhileFadedOut ==
    [][\A t \in NavIds : Settles(t) => opacity = FadedOpacity]_vars

\* The navigations in progress: started, neither settled nor fallen back.
InProgress == {t \in NavIds : tasks[t].pc \in {"fetch", "styles", "fade"}}

\* C15: while a navigation is in progress the content region is dimmed
\* (opacity below '1') and its pointer interaction is disabled.
C15_DimmedWhileInProgress ==
    InProgress # {} => /\ opacity \in {DimOpacity, FadedOpacity}
                       /\ pointerEvents = "none"

\* What is on display: content, title, active nav links, top history entry.
Displayed == <<mainHTML, docTitle, navActive, Last(hist)>>

\* C16: the displayed content, the document title, the active nav link and
\* the top history entry are written by settling steps only, each of which
\* sets all four to its own navigation's: after overlapping navigations have
\* settled they are those of the one whose replacement step ran last,
\* whatever the order in which the calls were started.
C16_LastReplacementWins ==
    [][/\ \A t \in NavIds :
             Settles(t)
             => /\ mainHTML' = extractContent(tasks[t].html[1]).main
                /\ docTitle' = extractContent(tasks[t].html[1]).title
                /\ navActive' = LinksNamed(tasks[t].url)
                /\ Last(hist').url = tasks[t].url
                /\ Last(hist').state = <<tasks[t].url>>
                /\ hidx' = Len(hist')
       /\ (tasks # <<>> /\ \A t \in NavIds : ~Settles(t))
             => Displayed' = Displayed]_vars

\* An uncached page clicked first settles after a cached page clicked later,
\* and overwrites it.
C16_Witness ==
    \E t1, t2 \in NavIds :
       /\ t1 < t2
       /\ tasks[t1].pc = "settled" /\ tasks[t2].pc = "settled"
       /\ ~tasks[t1].hit /\ tasks[t2].hit
       /\ tasks[t1].url = IndexUrl /\ tasks[t2].url = TrendingUrl
       /\ mainHTML = extractContent(tasks[t1].html[1]).main
       /\ docTitle = "Home"
       /\ navActive = {1}
       /\ Len(hist) = 3
       /\ hist[2].url = TrendingUrl /\ hist[3].url = IndexUrl

\* C17: under fairness every started navigation eventually is settled or has
\* taken the hard fallback, stays so, and is never in any state other than
\* awaiting its fetch, its stylesheets or its timer before that.
C17_EndsSettledOrFallback ==
    /\ [](\A t \in NavIds :
             tasks[t].pc \in {"fetch", "styles", "fade", "settled", "fallback"})
    /\ [][\A t \in NavIds :
             tasks[t].pc \in {"settled", "fallback"}
             => tasks'[t].pc = tasks[t].pc]_vars
    /\ \A t \in 1..MaxFairNavs :
          [](t \in NavIds
                => <>(t \in NavIds /\ tasks[t].pc \in {"settled", "fallback"}))

C17_Witness ==
    /\ Len(tasks) >= 2
    /\ InProgress = {}
    /\ \E t \in NavIds : tasks[t].pc = "fallback"
    /\ \E t \in NavIds : tasks[t].pc = "settled" /\ pageloads >= 1
    /\ \E i \in 1..Len(headLinks) : headLinks[i].st # "loading"

\* C18: the step that settles navigateTo(u) leaves the document body's class
\* equal to the bodyClass extracted from u's markup.
C18_BodyClassOfTarget ==
    [][\A t \in NavIds :
          Settles(t)
          => bodyClass' = extractContent(tasks[t].html[1]).bodyClass]_vars

\* Stylesheet element i fires error in the step.
Errors(i) == headLinks[i].st = "loading" /\ headLinks'[i].st = "error"

\* A stylesheet listed by task t's page has fired error.
HasFailedStyle(t) ==
    \E i \in 1..Len(headLinks) :
       headLinks[i].href \in StylesOf(t) /\ headLinks[i].st = "error"

\* C19: a stylesheet's error event resolves the wait on it exactly as load
\* would (a navigation waiting only for it starts its fade-out in that step);
\* a navigation that has its markup never takes the hard fallback; and one
\* whose page lists a failed stylesheet goes on to settle.
C19_StyleErrorDoesNotBlock ==
    /\ [][\A i \in 1..Len(headLinks) :
             Errors(i)
             => \A t \in NavIds :
                   i \in tasks[t].waits
                   => IF tasks[t].waits = {i}
                      THEN tasks'[t].pc = "fade"
                      ELSE tasks'[t].waits = tasks[t].waits \ {i}]_vars
    /\ [][\A t \in NavIds :
             tasks[t].pc \in {"styles", "fade"}
             => tasks'[t].pc # "fallback"]_vars
    /\ \A t \in 1..MaxFairNavs :
          [](t \in NavIds /\ tasks[t].pc = "fade" /\ HasFailedStyle(t)
                => <>(t \in NavIds /\ tasks[t].pc = "settled"))

C19_Witness ==
    \E t \in NavIds :
       /\ tasks[t].pc = "settled" /\ ~tasks[t].hit
       /\ tasks[t].html = <<DocTrending>>
       /\ mainHTML = DocTrending.main[1]
       /\ headLinks = <<[href |-> TrendingCss, st |-> "error"]>>
       /\ hardNavs = <<>>

\* The local stylesheet hrefs of the initial document.
InitialLocalStyles ==
    {EntryLinks[i].href : i \in {j \in 1..Len(EntryLinks) :
        EntryLinks[j].rel = "stylesheet"}} \ {FontsCss, ""}

\* C20: no navigation or preload has begun before initSPA has run, from then
\* on every local stylesheet href of the initial document is in
\* loadedStyles, and the loader never appends an element for such an href.
C20_InitialStylesSeeded ==
    /\ tasks # <<>> => inited
    /\ inited => InitialLocalStyles \subseteq loadedStyles
    /\ inited => StyleCss \in loadedStyles
    /\ \A i \in 1..Len(headLinks) : headLinks[i].href \notin InitialLocalStyles

C20_Witness ==
    /\ \E t \in NavIds :
          /\ tasks[t].pc = "settled"
          /\ StyleCss \in StylesOf(t) /\ TrendingCss \in StylesOf(t)
    /\ StyleCss \in InitialLocalStyles
    /\ headLinks = <<[href |-> TrendingCss, st |-> "loaded"]>>

(***************************************************************************)
(* C21..C30                                                                *)
(***************************************************************************)
\* The step in which preload t's fetch fails.
PreloadFails(t) ==
    t \in PreIds /\ tasks[t].pc = "fetch" /\ tasks'[t].pc = "failed"

\* C21: the step in which a preloadPage(u) fails starts no hard navigation,
\* changes neither the content region, the title, the region's style nor the
\* history, and writes nothing to pageCache; a navigateTo(u) started after it
\* with u still uncached issues a request for u.
C21_FailedPreloadIsSilent ==
    [][/\ \A t \in PreIds :
             PreloadFails(t)
             => /\ hardNavs' = hardNavs
                /\ <<mainHTML, docTitle, navActive, scrollTop>>'
                      = <<mainHTML, docTitle, navActive, scrollTop>>
                /\ <<opacity, pointerEvents, transition>>'
                      = <<opacity, pointerEvents, transition>>
                /\ <<hist, hidx, location>>' = <<hist, hidx, location>>
                /\ pageCache' = pageCache
                /\ pageloads' = pageloads
       /\ \A t \in Started :
             (/\ tasks'[t].kind = "nav"
              /\ pageCache[tasks'[t].url] = <<>>
              /\ \E f \in PreIds : tasks[f].pc = "failed"
                                   /\ tasks[f].url = tasks'[t].url)
             => /\ tasks'[t].pc = "fetch"
                /\ requests'[tasks'[t].url] = requests[tasks'[t].url] + 1]_vars

C21_Witness ==
    \E f \in PreIds : \E t \in NavIds :
        /\ f < t /\ tasks[f].url = tasks[t].url
        /\ tasks[f].pc = "failed" /\ tasks[t].pc = "settled" /\ ~tasks[t].hit
        /\ hardNavs = <<>>
        /\ requests[tasks[t].url] = 2

\* C22: no src is given to a new Image twice, the empty src never is, the
\* requests made are exactly the members of imageCache, and imageCache and
\* the requests only grow; a preloadImage call whose src is empty or in
\* imageCache changes nothing.
C22_OneRequestPerImage ==
    /\ [](/\ \A i, j \in 1..Len(imgRequests) :
                imgRequests[i] = imgRequests[j] => i = j
          /\ imageCache = {imgRequests[i] : i \in 1..Len(imgRequests)}
          /\ "" \notin imageCache)
    /\ [][/\ imageCache \subseteq imageCache'
          /\ Len(imgRequests) <= Len(imgRequests')
          /\ SubSeq(imgRequests', 1, Len(imgRequests)) = imgRequests]_vars
    /\ [][\A src \in ApiSrcs :
             (src = "" \/ src \in imageCache)
             => (PreloadImageCall(src) => UNCHANGED vars)]_vars

\* The image of trending.html has been requested once under each spelling:
\* as written in the markup text (preloadPage) and as the element's src
\* (navigateTo), and a further pass over the same page added nothing.
C22_Witness ==
    /\ imgRequests = <<ImgShell, ImgA, ImgAResolved>>
    /\ \E t \in PreIds : tasks[t].pc = "done" /\ tasks[t].url = TrendingUrl
    /\ \E t \in NavIds : tasks[t].pc = "settled" /\ tasks[t].url = TrendingUrl
    /\ Len(tasks) = 3

\* The browser makes another entry of the same list current in the step.
Traverses == hidx' # hidx /\ hist' = hist /\ pushes' = pushes

\* C23: a popstate (a traversal to an entry of this document) calls
\* navigateTo exactly once: with the url of the entry's state when the state
\* has a non-empty one, otherwise with the last segment of the location's
\* path, 'index.html' when that is empty; and only a popstate starts a
\* navigation marked as such.
C23_PopStateNavigatesOnce ==
    [][/\ Traverses
          => /\ Len(tasks') = Len(tasks) + 1
             /\ SubSeq(tasks', 1, Len(tasks)) = tasks
             /\ tasks'[Len(tasks')].kind = "nav"
             /\ location' = hist[hidx'].url
             /\ LET e == hist[hidx']
                    path == Pathname(location')
                    segs == Segments(path)
                IN tasks'[Len(tasks')].url =
                      IF e.state # <<>> /\ e.state[1] # "" THEN e.state[1]
                      ELSE IF segs[Len(segs)] = "" THEN "index.html"
                      ELSE segs[Len(segs)]
       /\ \A t \in Started : tasks'[t].via = "pop" => Traverses]_vars

\* Back to an entry the browser made for a fragment link at the site root: no
\* state, an empty last path segment.
C23_Witness ==
    /\ hist[hidx].state = <<>>
    /\ location = WithFragment(RootPath)
    /\ Len(tasks) = 2
    /\ tasks[1].url = SubTrendingUrl /\ tasks[1].pc = "settled"
    /\ tasks[2].via = "pop" /\ tasks[2].url = IndexUrl

\* initSPA runs in the step.
Initialises == ~inited /\ inited'

\* C24: initSPA replaces the current history entry and pushes none: the
\* length and the current index are as before, the current entry keeps its
\* url and has state {url: last segment of the location's path, 'index.html'
\* when that is empty}, and the content, the title and the location are
\* unchanged.
C24_InitReplacesEntry ==
    [][Initialises
       => /\ Len(hist') = Len(hist) /\ hidx' = hidx /\ pushes' = pushes
          /\ \A i \in 1..Len(hist) : i # hidx => hist'[i] = hist[i]
          /\ hist'[hidx].url = hist[hidx].url
          /\ hist'[hidx].state =
                IF location \in {RootPath, IndexUrl} THEN <<"index.html">>
                ELSE <<location>>
          /\ <<mainHTML, docTitle, navActive, location>>'
                = <<mainHTML, docTitle, navActive, location>>]_vars

\* Initialised at the site root, and then at the alias: one entry each.
C24_Witness ==
    /\ inited
    /\ hist = <<[state |-> <<"index.html">>, title |-> EntryTitle,
                 url |-> RootPath]>>
    /\ location = RootPath /\ mainHTML = EntryMain

\* The href that are non-empty, end with '.html' and start with none of
\* 'http', '#', 'mailto:', among those a click can land on.
PageHrefs == {IndexUrl, TrendingUrl}

\* C25: a click handled by handleLinkClick on a link whose href is non-empty,
\* ends with '.html' and starts with none of 'http', '#', 'mailto:' starts
\* one navigation to that href, dims the region, and the browser does not
\* follow the link; a click on any other link starts no navigation, leaves
\* the region's style alone, and the browser follows the link.
C25_InterceptsPageLinksOnly ==
    [][/\ \A href \in ClickHrefs :
             HandleLinkClick(href)
             => IF href \in PageHrefs
                THEN /\ Len(tasks') = Len(tasks) + 1
                     /\ SubSeq(tasks', 1, Len(tasks)) = tasks
                     /\ tasks'[Len(tasks')].kind = "nav"
                     /\ tasks'[Len(tasks')].url = href
                     /\ pointerEvents' = "none"
                     /\ opacity' \in {DimOpacity, FadedOpacity}
                     /\ followed' = followed
                ELSE /\ tasks' = tasks
                     /\ <<opacity, pointerEvents, transition>>'
                           = <<opacity, pointerEvents, transition>>
                     /\ \/ href \in followed'
                        \/ /\ href = Fragment
                           /\ location' = WithFragment(location)
                           /\ Len(hist') = hidx + 1 /\ hidx' = hidx + 1
                           /\ hist'[hidx'].state = <<>>
       /\ \A t \in Started :
             tasks'[t].via = "click"
             => followed' = followed /\ histVars' = histVars
       /\ \A href \in followed' \ followed :
             href \notin PageHrefs /\ tasks' = tasks]_vars

C25_Witness ==
    /\ followed = {"", ExternalPage, MailHref, PdfHref, QueryHref}
    /\ location = WithFragment(IndexUrl)
    /\ Len(tasks) = 2
    /\ tasks[1].via = "click" /\ tasks[1].url = IndexUrl
    /\ tasks[2].via = "click" /\ tasks[2].url = TrendingUrl
    /\ tasks[2].pc = "fetch"

\* C26: the 'spa:pageload' events dispatched number the navigations that
\* have settled; an event is dispatched only by the step in which a
\* navigation settles, once, and what its listeners find is that
\* navigation's content and title, its pushed history entry, and the region
\* at full opacity with pointer interaction restored; the step in which a
\* navigation falls back dispatches none.
C26_OnePageloadPerSettle ==
    /\ [](pageloads = Cardinality({t \in NavIds : tasks[t].pc = "settled"}))
    /\ [][/\ \A t \in NavIds :
                Settles(t)
                => /\ pageloads' = pageloads + 1
                   /\ mainHTML' = extractContent(tasks[t].html[1]).main
                   /\ docTitle' = extractContent(tasks[t].html[1]).title
                   /\ pushes' = pushes + 1
                   /\ hist'[hidx'].url = tasks[t].url
                   /\ opacity' = "1" /\ pointerEvents' = ""
          /\ pageloads' # pageloads => \E t \in NavIds : Settles(t)
          /\ \A t \in NavIds : FallsBack(t) => pageloads' = pageloads]_vars

C26_Witness ==
    /\ pageloads = 1
    /\ Len(tasks) = 2
    /\ \E t \in NavIds : tasks[t].pc = "settled"
    /\ \E t \in NavIds : tasks[t].pc = "fallback"

\* Task t receives its markup in the step (fetched, or from the cache).
Receives(t) ==
    /\ (t \in Started \/ tasks[t].html = <<>>)
    /\ tasks'[t].kind = "nav" /\ tasks'[t].html # <<>>

\* C27: whatever the shape of the markup, a navigation that receives it goes
\* on to its stylesheets or its fade-out and never falls back afterwards,
\* and when it settles the content region holds the markup's <main> content,
\* empty when there is no <main>, and the title is the markup's <title>
\* text, 'Music App' when that is missing or empty.
C27_DegradedMarkupSettles ==
    [][/\ \A t \in 1..Len(tasks') :
             Receives(t) => /\ tasks'[t].html[1] \in Markups
                            /\ tasks'[t].pc \in {"styles", "fade"}
       /\ \A t \in NavIds :
             FallsBack(t) => tasks[t].html = <<>> /\ tasks[t].pc = "fetch"
       /\ \A t \in NavIds :
             Settles(t)
             => LET m == tasks[t].html[1]
                IN /\ mainHTML' = IF m.main = <<>>
                                  THEN [text |-> "", imgs |-> <<>>]
                                  ELSE m.main[1]
                   /\ docTitle' = IF m.title \in {<<>>, <<"">>}
                                  THEN "Music App" ELSE m.title[1]
                   /\ hardNavs' = hardNavs]_vars

C27_Witness ==
    \E t \in NavIds :
       /\ tasks[t].pc = "settled"
       /\ tasks[t].html[1].main = <<>> /\ tasks[t].html[1].title = <<>>
       /\ tasks[t].html[1].links # <<>>
       /\ mainHTML = [text |-> "", imgs |-> <<>>]
       /\ docTitle = "Music App"
       /\ hardNavs = <<>>

(***************************************************************************)
(* The player operations.  Each is called from a click, drag or touch      *)
(* handler of the page shell (or through the module's exports) and runs to *)
(* completion; the update* functions it ends with write only to the DOM.   *)
(***************************************************************************)
spaSourceVars == <<inited, preloadTimer, cacheVars, styleVars, requests, tasks,
              mainStyleVars, pageVars, histVars, hardNavs, pageloads,
              followed, prevented>>

spaVars == <<spaSourceVars, bundle>>

\* The percentages the progress bar handlers compute, from left of the bar
\* to right of it, and the levels of the volume bar handlers (hundredths).
Percentages == {-50, 0, 37, 100, 150}
Levels == {-200, 0, 30, 100, 300}

\* Track data as the card, chart row and track row handlers build it (no
\* duration; data attributes may be missing) and as the exported loadTrack
\* may get it.
TrackInputs ==
    {[id |-> "t1", title |-> "Song", artist |-> "Artist",
      image |-> "cover.jpg"],
     [id |-> "t2", title |-> "Song", artist |-> "Artist",
      image |-> "cover.jpg", duration |-> 600],
     [id |-> "", title |-> "", duration |-> 1]}

PlayerCall(name, state) ==
    /\ playerState' = state
    /\ playerCalls' = <<playerCalls[2], name>>
    /\ UNCHANGED <<spaVars, navVars, prevented, bundle>>

TogglePlay == PlayerCall("togglePlay", togglePlay(playerState))

SetProgress ==
    \E percentage \in Percentages :
        PlayerCall("setProgress", setProgress(playerState, percentage))

SetVolume ==
    \E level \in Levels :
        PlayerCall("setVolume", setVolume(playerState, level))

ToggleMute == PlayerCall("toggleMute", toggleMute(playerState))

LoadTrack ==
    \E trackData \in TrackInputs \cup {NoTrack} :
        PlayerCall("loadTrack", loadTrack(playerState, trackData))

ToggleShuffle == PlayerCall("toggleShuffle", toggleShuffle(playerState))

CycleRepeat == PlayerCall("cycleRepeat", cycleRepeat(playerState))

NextPlayer ==
    \/ TogglePlay
    \/ SetProgress
    \/ SetVolume
    \/ ToggleMute
    \/ LoadTrack
    \/ ToggleShuffle
    \/ CycleRepeat

SpecPlayer == Init /\ [][NextPlayer]_vars

\* C28: togglePlay is an involution on isPlaying: in every state of the
\* player, two calls of togglePlay give back the isPlaying of that state and
\* leave every other field of playerState as it was.
C28_TogglePlayInvolution ==
    LET twice == togglePlay(togglePlay(playerState))
    IN  /\ twice.isPlaying = playerState.isPlaying
        /\ \A f \in DOMAIN playerState \ {"isPlaying"} :
               twice[f] = playerState[f]
        /\ togglePlay(playerState).isPlaying # playerState.isPlaying

\* togglePlay was called twice in a row on a loaded track.
C28_Witness ==
    /\ playerCalls = <<"togglePlay", "togglePlay">>
    /\ playerState.currentTrack # NoTrack
    /\ playerState.isPlaying
    /\ playerState.currentTime > 0

\* C29: in every state reachable by loadTrack (with a positive duration or
\* none), setProgress (with percentages below 0, within 0..100 and above
\* 100) and the toggle operations, 0 <= currentTime <= duration.
C29_CurrentTimeWithinDuration ==
    /\ 0 <= playerState.currentTime
    /\ playerState.currentTime <= playerState.duration * Second

\* setProgress has just put the position at the end of a loaded track, and
\* before that somewhere inside it.
C29_Witness ==
    /\ playerCalls = <<"setProgress", "setProgress">>
    /\ playerState.duration = DefaultDuration
    /\ playerState.currentTime = playerState.duration * Second

\* C30: in every state reachable by the player operations 0 <= volume <= 1;
\* setVolume(level) gives 0 for a level below 0, 1 for a level above 1 and
\* the level itself otherwise; a step of any other operation leaves volume
\* as it was.
C30_VolumeWithinBounds ==
    /\ [](/\ 0 <= playerState.volume
          /\ playerState.volume <= FullVolume
          /\ \A level \in Levels :
                 setVolume(playerState, level).volume =
                     IF level < 0 THEN 0
                     ELSE IF level > FullVolume THEN FullVolume
                     ELSE level)
    /\ [][playerState'.volume # playerState.volume
              => playerCalls'[2] = "setVolume"]_vars

\* setVolume was called with a level off the bar after the volume had been
\* changed and muted.
C30_Witness ==
    /\ playerCalls = <<"toggleMute", "setVolume">>
    /\ playerState.volume = FullVolume
    /\ playerState.currentTrack # NoTrack

\* The track data whose id, title, artist and image are all non-empty.
CompleteTracks ==
    {t \in TrackInputs :
        \A f \in {"id", "title", "artist", "image"} :
            f \in DOMAIN t /\ t[f] # ""}

\* C31: from any player state, loadTrack(t) with track data whose id, title,
\* artist and image are non-empty leaves currentTrack holding exactly these
\* four values of t, currentTime 0 and isPlaying true.
C31_LoadTrackHoldsTrackData ==
    \A t \in CompleteTracks :
        LET after == loadTrack(playerState, t)
        IN  /\ after.currentTrack =
                   [id |-> t.id, title |-> t.title, artist |-> t.artist,
                    image |-> t.image]
            /\ after.currentTime = 0
            /\ after.isPlaying

\* A complete track was loaded over another one that had been paused at a
\* position inside it: loadTrack, setProgress, togglePlay, loadTrack.
C31_Witness ==
    /\ playerCalls[2] = "loadTrack"
    /\ playerCalls[1] = "togglePlay"
    /\ playerState.currentTrack \in
           {[id |-> t.id, title |-> t.title, artist |-> t.artist,
             image |-> t.image] : t \in CompleteTracks}
    /\ playerState.duration = 600
    /\ playerState.currentTime = 0
    /\ playerState.isPlaying

(***************************************************************************)
(* The navigation module's operations                                      *)
(***************************************************************************)
\* Page names: none, the names of the nav links' pages, and a name no nav
\* link has.
PageNames == {"", "home", "trending", "albums"}

\* window.innerWidth of a desktop, a tablet and a phone.
Widths == {1280, 900, 600}

SetActivePage ==
    \E pageName \in PageNames :
        /\ navState' = setActivePage(navState, pageName)
        /\ navActive' = IF pageName = "" THEN navActive
                        ELSE ActiveLinksOf(pageName)
        /\ UNCHANGED <<inited, preloadTimer, cacheVars, styleVars, requests,
                       tasks, mainStyleVars, scrollTop, mainHTML, docTitle,
                       bodyClass, histVars, hardNavs, pageloads, followed,
                       playerVars, sidebarClasses, prevented, bundle>>

ToggleSidebarCollapse ==
    /\ navState' = [navState EXCEPT !.sidebarCollapsed = ~@]
    /\ sidebarClasses' =
           IF navState'.sidebarCollapsed
           THEN sidebarClasses \cup {"sidebar-collapsed"}
           ELSE sidebarClasses \ {"sidebar-collapsed"}
    /\ UNCHANGED <<spaVars, playerVars>>

ToggleSidebarVisibility ==
    LET isCurrentlyVisible == "sidebar-visible" \in sidebarClasses
    IN  /\ navState' = [navState EXCEPT !.sidebarHidden = isCurrentlyVisible]
        /\ sidebarClasses' =
               IF ~isCurrentlyVisible
               THEN sidebarClasses \cup {"sidebar-visible"}
               ELSE sidebarClasses \ {"sidebar-visible"}
        /\ UNCHANGED <<spaVars, playerVars>>

CloseSidebar ==
    /\ navState' = [navState EXCEPT !.sidebarHidden = TRUE]
    /\ sidebarClasses' = sidebarClasses \ {"sidebar-visible"}
    /\ UNCHANGED <<spaVars, playerVars>>

HandleResize ==
    \E width \in Widths :
        /\ IF width > 1024
           THEN /\ navState' = [navState EXCEPT !.sidebarCollapsed = FALSE,
                                                !.sidebarHidden = FALSE]
                /\ sidebarClasses' = {}
           ELSE IF width > 768
           THEN /\ navState' = [navState EXCEPT !.sidebarCollapsed = TRUE,
                                                !.sidebarHidden = FALSE]
                /\ sidebarClasses' = {"sidebar-collapsed"}
           ELSE /\ navState' = [navState EXCEPT !.sidebarHidden = TRUE]
                /\ sidebarClasses' = sidebarClasses \ {"sidebar-collapsed"}
        /\ UNCHANGED <<spaVars, playerVars>>

\* The sidebar and the player are used together, in any order.
NextShell ==
    \/ SetActivePage
    \/ ToggleSidebarCollapse
    \/ ToggleSidebarVisibility
    \/ CloseSidebar
    \/ HandleResize
    \/ TogglePlay
    \/ LoadTrack

SpecShell == Init /\ [][NextShell]_vars

\* C32: from any navigation state, setActivePage(p) with a non-empty page
\* name p leaves navState.currentPage equal to p, and setActivePage with an
\* empty name leaves navState as it was.
C32_SetActivePageSetsCurrentPage ==
    \A p \in PageNames :
        LET after == setActivePage(navState, p)
        IN  IF p = "" THEN after = navState ELSE after.currentPage = p

\* setActivePage was called with the name of a page without nav link, in a
\* navigation state other than the initial one.
C32_Witness ==
    /\ navState.currentPage = "albums"
    /\ navState.sidebarCollapsed
    /\ navState.sidebarHidden
    /\ navActive = {}

\* The requests for url that are in flight.
InFlight(url) == {t \in TaskIds : tasks[t].url = url /\ FetchPending(t)}

\* C33: resolutions of the same uncached URL are not deduplicated in flight:
\* a preloadPage(u) or navigateTo(u) that starts while u is not cached and a
\* request for u is in flight issues a request of its own, so that two
\* requests for u are in flight at once.
C33_NoInFlightDeduplication ==
    [][\A t \in Started :
          LET u == tasks'[t].url
          IN  (~CacheHas(u) /\ InFlight(u) # {})
                  => /\ requests'[u] = requests[u] + 1
                     /\ tasks'[t].pc = "fetch"
                     /\ \A o \in InFlight(u) \cup {t} :
                            tasks'[o].url = u /\ tasks'[o].pc = "fetch"]_vars

\* Two preloads and a click navigation, each with its own request for the
\* same URL in flight, and no request for that URL has failed.
C33_Witness ==
    \E u \in Urls :
        /\ \E p, q \in PreIds, n \in NavIds :
               /\ p # q
               /\ {p, q, n} \subseteq InFlight(u)
               /\ tasks[n].via = "click"
        /\ requests[u] = 3
        /\ \A t \in TaskIds : tasks[t].url = u => ~FetchFailed(t)

\* Content, title and active nav link are those navigation t produced, and
\* the history entry e is the one t pushed.
ShownBy(t, e) ==
    /\ tasks[t].pc = "settled"
    /\ mainHTML = extractContent(tasks[t].html[1]).main
    /\ docTitle = extractContent(tasks[t].html[1]).title
    /\ navActive = LinksNamed(tasks[t].url)
    /\ e.url = tasks[t].url

\* Content, title and active nav link are those of the entry document, and
\* the history entry e is the one it was loaded with.
ShownByEntry(e) ==
    /\ \A t \in NavIds : tasks[t].pc # "settled"
    /\ mainHTML = EntryMain
    /\ docTitle = EntryTitle
    /\ navActive = LinksNamed(EntryUrl)
    /\ e.url = EntryUrl

\* A navigation started by a back or forward step has not settled.
TraversalPending ==
    \E t \in NavIds :
        tasks[t].via = "pop" /\ tasks[t].pc \in {"fetch", "styles", "fade",
                                                  "fallback"}

\* C34 as stated: in every reachable state the displayed content, the title,
\* the active nav link and the url of the current history entry are those of
\* one navigation (or of the load of the entry document).
C34_CurrentEntryOfDisplayed ==
    \/ ShownByEntry(hist[hidx])
    \/ \E t \in NavIds : ShownBy(t, hist[hidx])

\* C34 amended: in every reachable state the displayed content, the title,
\* the active nav link and the url of the last entry of the history stack are
\* those of one navigation (or of the load of the entry document), each
\* settling step writing the four together; the current entry is that last
\* entry except after a back or forward step whose navigation has not
\* settled: the browser has then moved to the target entry already, while
\* content, title and active link are still the previous page's.
C34_TopEntryOfDisplayed ==
    /\ \/ ShownByEntry(Last(hist))
       \/ \E t \in NavIds : ShownBy(t, Last(hist))
    /\ ~TraversalPending => hidx = Len(hist)

\* After trending.html settled, a back step: the current entry is index.html,
\* its navigation is awaiting its fetch, and the content, title, active link
\* and last entry are those of trending.html.
C34_Witness ==
    /\ TraversalPending
    /\ hidx = 1 /\ Len(hist) = 2
    /\ hist[hidx].url = IndexUrl
    /\ \E t \in NavIds :
           ShownBy(t, Last(hist)) /\ tasks[t].url = TrendingUrl
    /\ [kind |-> "nav", via |-> "pop", url |-> IndexUrl, pc |-> "fetch",
        html |-> <<>>, waits |-> {}, hit |-> FALSE] = tasks[Len(tasks)]

\* What a failing navigateTo leaves alone: the content region's markup and
\* scroll position, the title, the body class, the active nav link, the
\* history stack, pageCache, the image cache, loadedStyles and the <link>
\* elements, the 'spa:pageload' count.
FailureFrame ==
    <<mainHTML, scrollTop, docTitle, bodyClass, navActive, hist, pushes,
      pageCache, imageCache, imgRequests, loadedStyles, headLinks, pageloads>>

\* C35: the two steps of a navigateTo(u) whose fetch fails (from the call to
\* the await of fetch, and the rejection) leave the content region's markup,
\* the title, the history stack, the active nav link, pageCache and
\* loadedStyles unchanged: the first changes only the region's opacity and
\* pointer state, the second only starts the hard navigation to u.
C35_FailedNavigationFrame ==
    [][/\ \A t \in Started :
             (tasks'[t].kind = "nav" /\ tasks'[t].pc = "fetch")
             => /\ FailureFrame' = FailureFrame
                /\ transition' = transition
                /\ opacity' = DimOpacity /\ pointerEvents' = "none"
                /\ hardNavs' = hardNavs
       /\ \A t \in NavIds :
             FallsBack(t)
             => /\ FailureFrame' = FailureFrame
                /\ mainStyleVars' = mainStyleVars
                /\ histVars' = histVars
                /\ hardNavs' = Append(hardNavs, tasks[t].url)]_vars

\* A click navigation to trending.html has failed after another navigation
\* had settled: content, title, active link, history and caches are those
\* the settled navigation left, the region is dimmed and a hard navigation
\* to trending.html is under way.
C35_Witness ==
    \E s, t \in NavIds :
        /\ s < t
        /\ ShownBy(s, Last(hist)) /\ tasks[s].url = IndexUrl
        /\ tasks[t].pc = "fallback" /\ tasks[t].url = TrendingUrl
        /\ ~CacheHas(TrendingUrl)
        /\ Len(hist) = 2 /\ pushes = 1
        /\ opacity = DimOpacity /\ pointerEvents = "none"
        /\ hardNavs = <<TrendingUrl>>

(***************************************************************************)
(* Hung requests: the behaviours in which no fetch issued by navigateTo    *)
(* ever resolves or rejects, and a link is clicked only when no navigation *)
(* is running.  Everything else happens, and eventually: the 2000 ms timer,*)
(* hover preloads and their outcomes, and the steps of the navigations     *)
(* served from pageCache.                                                  *)
(***************************************************************************)
NoNavigationRuns ==
    \A t \in NavIds : tasks[t].pc \in {"settled", "fallback"}

LoneClick(href) == NoNavigationRuns /\ ClickLink(href)

NextHung ==
    \/ InitSPA
    \/ \E href \in ShellHrefs : LoneClick(href)
    \/ \E href \in ShellHrefs : HoverLink(href)
    \/ PreloadTimerFires
    \/ \E t \in TaskIds : \E body \in ServerBodies(tasks[t].url) :
           PreTextResolves(t, body)
    \/ \E t \in TaskIds : PreFetchFails(t)
    \/ \E i \in 1..Len(headLinks) : StyleLoads(i)
    \/ \E i \in 1..Len(headLinks) : StyleErrors(i)
    \/ \E t \in TaskIds : FadeTimeout(t)

SpecHung == Init /\ [][NextHung]_vars /\ WF_vars(NextHung)

\* Navigation t awaits its fetch.
Hung(t) == t \in NavIds /\ tasks[t].pc = "fetch"

\* C36: when the fetch of a navigateTo never completes and no other
\* navigation runs, the call awaits it forever with the content region at
\* opacity 0.5 and its pointer interaction disabled, and from then on no
\* content replacement, no history push, no 'spa:pageload' and no hard
\* navigation happens, whatever timers fire and whatever preloads complete.
C36_HungFetchStaysDimmed ==
    /\ \A t \in 1..MaxTasks :
          [](Hung(t) => [](/\ Hung(t)
                           /\ opacity = DimOpacity
                           /\ pointerEvents = "none"))
    /\ [][(\E t \in NavIds : Hung(t))
              => /\ pageVars' = pageVars
                 /\ hist' = hist /\ pushes' = pushes
                 /\ pageloads' = pageloads
                 /\ hardNavs' = hardNavs]_vars

\* The 2000 ms timer has fired and its preload has stored the very page the
\* navigation is waiting for; the navigation still awaits its own request.
C36_Witness ==
    \E t \in NavIds :
        /\ Hung(t)
        /\ CacheHas(tasks[t].url)
        /\ inited /\ ~preloadTimer
        /\ \A p \in PreIds : tasks[p].pc \in {"done", "failed"}
        /\ opacity = DimOpacity /\ pointerEvents = "none"
        /\ hardNavs = <<>>

(***************************************************************************)
(* A document without <main> element: clicks on the links of the page      *)
(* shell and on an external link, hover preloads and the preload timer.    *)
(***************************************************************************)
InitNoMain == InitWith(EntryUrl, NoMain)

NextNoMain ==
    \/ InitSPA
    \/ \E href \in ShellHrefs \cup {ExternalPage} : HandleLinkClick(href)
    \/ \E href \in ShellHrefs : HoverLink(href)
    \/ PreloadTimerFires
    \/ \E t \in TaskIds : \E body \in ServerBodies(tasks[t].url) :
           PreTextResolves(t, body)
    \/ \E t \in TaskIds : PreFetchFails(t)

SpecNoMain == InitNoMain /\ [][NextNoMain]_vars

\* C37: in a document without <main> element the click on a link that
\* handleLinkClick intercepts (its default action is prevented, the browser
\* does not follow it) changes nothing: no dimming, no request, no write to
\* pageCache, no history push, no 'spa:pageload', no hard navigation; so no
\* navigation ever starts in such a document.
C37_NoMainClickHasNoEffect ==
    /\ [](mainHTML = NoMain
              => /\ NavIds = {}
                 /\ mainStyleVars = <<"", "", "">>
                 /\ pushes = 0
                 /\ pageloads = 0
                 /\ hardNavs = <<>>
                 /\ prevented \cap followed = {}
                 /\ \A u \in Urls :
                        requests[u] =
                            Cardinality({t \in PreIds : tasks[t].url = u}))
    /\ [][(mainHTML = NoMain /\ prevented' # prevented)
              => /\ prevented' \ prevented \subseteq {h \in ClickHrefs :
                                                         Intercepts(h)}
                 /\ UNCHANGED <<inited, preloadTimer, cacheVars, styleVars,
                                requests, tasks, mainStyleVars, pageVars,
                                histVars, hardNavs, pageloads, followed>>]_vars

\* The links to both pages have been clicked and their default action
\* prevented, after initSPA and before anything else: nothing has changed.
C37_Witness ==
    /\ mainHTML = NoMain
    /\ inited
    /\ prevented = {IndexUrl, TrendingUrl}
    /\ tasks = <<>>
    /\ opacity = "" /\ pointerEvents = ""
    /\ \A u \in Urls : requests[u] = 0 /\ ~CacheHas(u)
    /\ hardNavs = <<>> /\ followed = {}

(***************************************************************************)
(* The two modules side by side                                            *)
(***************************************************************************)
\* extractContent(html) of the bundle: the text of the <title> element when
\* there is one, whatever it is; the inner markup of <main> when there is one.
BundledExtractContent(html) ==
    [main |-> IF html.main = <<>> THEN EmptyMarkup ELSE html.main[1],
     title |-> IF html.title = <<>> THEN DefaultTitle ELSE html.title[1]]

\* doNavigate(html) up to its setTimeout, for call t
BundledDoNavigate(b, t, html) ==
    [b EXCEPT !.tasks[t].pc = "fade", !.tasks[t].html = <<html>>,
              !.transition = FadeTransition, !.opacity = FadedOpacity]

\* initSPA of the bundle: the replaceState of the entry
BundledInitSPA(b) ==
    [b EXCEPT !.inited = TRUE,
              !.hist = ReplaceState(b.hist, b.hidx,
                           [state |-> <<FileName(Pathname(b.location))>>,
                            title |-> b.docTitle, url |-> b.location])]

\* navigateTo(url) of the bundle, to its fetch or to the timer of doNavigate
BundledNavigateTo(b, url) ==
    IF b.mainHTML = NoMain THEN b
    ELSE LET t == Len(b.tasks) + 1
             dimmed == [b EXCEPT !.opacity = DimOpacity,
                                 !.pointerEvents = "none",
                                 !.tasks = Append(b.tasks,
                                     [url |-> url, pc |-> "fetch",
                                      html |-> <<>>])]
         IN IF b.pageCache[url] # <<>>
            THEN BundledDoNavigate(dimmed, t, b.pageCache[url][1])
            ELSE dimmed

\* fetch and response.text() resolve with html for call t
BundledTextResolves(b, t, html) ==
    BundledDoNavigate([b EXCEPT !.pageCache[b.tasks[t].url] = <<html>>],
                      t, html)

\* fetch or response.text() rejects for call t: the catch
BundledFetchFails(b, t) ==
    [b EXCEPT !.tasks[t].pc = "fallback",
              !.hardNavs = Append(b.hardNavs, b.tasks[t].url)]

\* the callback of doNavigate's setTimeout for call t
BundledTimeout(b, t) ==
    LET url == b.tasks[t].url
        content == BundledExtractContent(b.tasks[t].html[1])
        h == PushState(b.hist, b.hidx,
                 [state |-> <<url>>, title |-> content.title, url |-> url])
    IN [b EXCEPT !.mainHTML = content.main,
                 !.docTitle = content.title,
                 !.hist = h.entries,
                 !.hidx = h.idx,
                 !.location = url,
                 !.navActive = updateActiveNav(url),
                 !.opacity = FullOpacity,
                 !.pointerEvents = "",
                 !.scrollTop = 0,
                 !.pageloads = b.pageloads + 1,
                 !.tasks[t].pc = "settled"]

\* Every variable but bundle: the page under js/spa.js.
sourceVars == <<spaSourceVars, playerVars, navVars>>

\* The page under the bundle has handled every event the page under js/spa.js
\* has: as many navigateTo calls, each at the same point.
InSync ==
    /\ bundle.inited = inited
    /\ Len(bundle.tasks) = Len(tasks)
    /\ \A t \in 1..Len(tasks) : bundle.tasks[t].pc = tasks[t].pc

\* The bodies for url that list no local stylesheet the document has not
\* loaded already.
PlainBodies(url) ==
    {body \in ServerBodies(url) :
        \A i \in 1..Len(ExtractStyles(body.links)) :
            ExtractStyles(body.links)[i] \in RegisteredStyles(EntryLinks)}

\* The pages of the comparison: the home page and the page of any markup.
PlainUrls == {IndexUrl, DegradedUrl}

\* The same events on the page under the bundle: the load of the script,
\* the click, the outcome of the fetch, the timer.
MirrorInitSPA ==
    /\ inited /\ ~bundle.inited
    /\ bundle' = BundledInitSPA(bundle)
    /\ UNCHANGED sourceVars

MirrorClick ==
    /\ bundle.inited
    /\ Len(bundle.tasks) < Len(tasks)
    /\ bundle' = BundledNavigateTo(bundle, tasks[Len(bundle.tasks) + 1].url)
    /\ UNCHANGED sourceVars

MirrorTextResolves(t) ==
    /\ t \in 1..Len(bundle.tasks)
    /\ bundle.tasks[t].pc = "fetch"
    /\ tasks[t].pc # "fetch" /\ tasks[t].html # <<>>
    /\ bundle' = BundledTextResolves(bundle, t, tasks[t].html[1])
    /\ UNCHANGED sourceVars

MirrorFetchFails(t) ==
    /\ t \in 1..Len(bundle.tasks)
    /\ bundle.tasks[t].pc = "fetch"
    /\ tasks[t].pc = "fallback"
    /\ bundle' = BundledFetchFails(bundle, t)
    /\ UNCHANGED sourceVars

MirrorTimeout(t) ==
    /\ t \in 1..Len(bundle.tasks)
    /\ bundle.tasks[t].pc = "fade"
    /\ tasks[t].pc = "settled"
    /\ bundle' = BundledTimeout(bundle, t)
    /\ UNCHANGED sourceVars

\* An event of the page under js/spa.js, one navigation at a time and when
\* the other page has caught up, or the same event on the other page.
NextDual ==
    \/ InSync /\ InitSPA
    \/ \E href \in PlainUrls : InSync /\ SeqClick(href)
    \/ \E t \in TaskIds : \E body \in PlainBodies(tasks[t].url) :
           InSync /\ NavTextResolves(t, body)
    \/ \E t \in TaskIds : InSync /\ NavFetchFails(t)
    \/ \E t \in TaskIds : InSync /\ FadeTimeout(t)
    \/ MirrorInitSPA
    \/ MirrorClick
    \/ \E t \in TaskIds : MirrorTextResolves(t)
    \/ \E t \in TaskIds : MirrorFetchFails(t)
    \/ \E t \in TaskIds : MirrorTimeout(t)

SpecDual == Init /\ [][NextDual]_vars

\* C38: for pages that list no new local stylesheet, the navigateTo of the
\* bundle and the navigateTo of js/spa.js, given the same navigation requests
\* and the same fetch outcomes, have after every event the same pageCache,
\* the same content in <main>, the same document title, the same history
\* entries (so the same pushes), as many 'spa:pageload' events and the same
\* hard fallbacks.
C38_BundledNavigateToEquivalent ==
    InSync =>
        /\ bundle.pageCache = pageCache
        /\ bundle.mainHTML = mainHTML
        /\ bundle.docTitle = docTitle
        /\ bundle.hist = hist
        /\ bundle.hidx = hidx
        /\ bundle.pageloads = pageloads
        /\ bundle.hardNavs = hardNavs

====
